---- MODULE Spec2Model ----
(***************************************************************************)
(* Practitioner availability calendar and presence tracker of the          *)
(* Express/SQLite backend: routes/practitioner.js, routes/auth.js and the  *)
(* Socket.IO heartbeat handler of server/index.js, over the tables of      *)
(* config/database.js.  Every HTTP request or socket event is a record in  *)
(* reqs; each sqlite statement together with its callback is one atomic    *)
(* step, so statements of different requests interleave freely.            *)
(***************************************************************************)
EXTENDS Integers, Sequences, FiniteSets, TLC

(* ---------------------------- bounds ----------------------------------- *)
MaxInFlight == 2
MaxRequests == 3
MaxTime == 6
NumAddresses == 1
MaxRows == 3

Reqs == 1..MaxInFlight

(* ------------------------ program constants ---------------------------- *)
DAYS == <<"Monday", "Tuesday", "Wednesday", "Thursday", "Friday", "Saturday", "Sunday">>

FreshnessMinutes == 5

Digits == {"0", "1", "2", "3", "4", "5", "6", "7", "8", "9"}

(* ----------------------------- inputs ---------------------------------- *)
T0900 == <<"0", "9", ":", "0", "0">>
T0901 == <<"0", "9", ":", "0", "1">>
T1000 == <<"1", "0", ":", "0", "0">>
T1700 == <<"1", "7", ":", "0", "0">>
T1800 == <<"1", "8", ":", "0", "0">>
T2400 == <<"2", "4", ":", "0", "0">>
T900 == <<"9", ":", "0", "0">>

Body(d, s, e) == [dayOfWeek |-> d, startTime |-> s, endTime |-> e]

Bodies ==
  { Body("Monday", T0900, T1700), Body("Monday", T1000, T1800),
    Body("Tuesday", T0900, T0901), Body("Monday", T0900, T0900),
    Body("Tuesday", T1700, T0900), Body("Funday", T0900, T1700),
    Body("Monday", T900, T1700), Body("Sunday", T0900, T2400) }

\* dayOfWeek values a client may send: the seven names, and strings that are
\* not among them (another word, other letter case, an abbreviation, a
\* trailing blank, the empty string)
DayInputs ==
  {DAYS[i] : i \in 1..Len(DAYS)} \cup {"Funday", "monday", "SUNDAY", "Mon", "Monday ", ""}

DayBodies == {Body(d, T0900, T1700) : d \in DayInputs}

\* a bearer token is named by the user id it was signed for; 0 is no token,
\* -1 a token that jwt.verify rejects (forged or expired)
NoToken == 0
BadToken == -1

IPs == {<<10, 0, 0, i>> : i \in 1..NumAddresses}
UserAgents == {"Mozilla/5.0"}

\* the hash bcrypt.hash stores for a password, and bcrypt.compare against it
Hash(pw) == <<"bcrypt", pw>>
Compare(pw, h) == h = Hash(pw)

Emails == {"p1@x.org", "pat@x.org", "nobody@x.org"}
Passwords == {"password1", "wrong", ""}

\* signup inputs: an email already stored, a new one and a malformed one; a
\* password of nine characters and one of five; two roles and a word that is none
SignupEmails == {"p1@x.org", "new@x.org", "not-an-email"}
SignupPasswords == {"password1", "short"}
SignupUserTypes == {"patient", "practitioner", "root"}

MinPasswordLength == 8

\* body('email').isEmail() and password.length over the inputs above
IsEmail(e) == e \in {"p1@x.org", "p2@x.org", "pat@x.org", "new@x.org", "nobody@x.org"}
PasswordLength(pw) ==
  CASE pw = "" -> 0 [] pw = "short" -> 5 [] pw = "wrong" -> 5 [] pw = "password1" -> 9
    [] pw = "password2" -> 9

\* userId values a socket client may put in a practitioner:heartbeat event:
\* 0 is a missing (falsy) userId, 9 names no user
SocketUserIds == {0, 1, 2, 3, 9}

Null == -1

\* err.message of a failed sqlite statement
StorageErrorText == "SQLITE_IOERR: disk I/O error"

\* faulty variant: an interval longer than the freshness window
HeartbeatMinutesSlow == FreshnessMinutes + 1

\* setInterval(sendHeartbeat, 2 * 60 * 1000), in minutes
HeartbeatMinutes == 2

(* ------------------------------ state ---------------------------------- *)
VARIABLES
  users,           \* rows of table users
  availability,    \* rows of table practitioner_availability
  availabilitySeq, \* AUTOINCREMENT counter of practitioner_availability
  sessions,        \* rows of table active_sessions
  now,             \* the server clock, in minutes
  reqs,            \* the requests in flight and the last response of each slot
  nreq,            \* number of requests accepted so far
  events,          \* the practitioner:status events io.emit has broadcast, in order
  dashboard        \* the practitioner dashboard of one browser: its socket and heartbeat timer

vars == <<users, availability, availabilitySeq, sessions, now, reqs, nreq, events, dashboard>>

UserIds == {u.id : u \in users}
UserOf(id) == CHOOSE u \in users : u.id = id
Tokens == {NoToken, BadToken} \cup UserIds

(* ------------------------- pure functions ------------------------------ *)
DigitVal(c) ==
  CASE c = "0" -> 0 [] c = "1" -> 1 [] c = "2" -> 2 [] c = "3" -> 3 [] c = "4" -> 4
    [] c = "5" -> 5 [] c = "6" -> 6 [] c = "7" -> 7 [] c = "8" -> 8 [] c = "9" -> 9

RECURSIVE Number(_)
Number(s) == IF s = <<>> THEN 0 ELSE 10 * Number(SubSeq(s, 1, Len(s) - 1)) + DigitVal(s[Len(s)])

ColonAt(t) == CHOOSE i \in 1..Len(t) : t[i] = ":" /\ \A j \in 1..(i - 1) : t[j] # ":"

SplitColon(t) == <<SubSeq(t, 1, ColonAt(t) - 1), SubSeq(t, ColonAt(t) + 1, Len(t))>>

ToMinutes(t) == Number(SplitColon(t)[1]) * 60 + Number(SplitColon(t)[2])

MatchesTime(t) ==
  /\ Len(t) = 5
  /\ \/ t[1] \in {"0", "1"} /\ t[2] \in Digits
     \/ t[1] = "2" /\ t[2] \in {"0", "1", "2", "3"}
  /\ t[3] = ":"
  /\ t[4] \in {"0", "1", "2", "3", "4", "5"}
  /\ t[5] \in Digits

IsDay(d) == \E i \in 1..Len(DAYS) : DAYS[i] = d

\* faulty variant: the dayOfWeek check dropped
validateAvailabilityTimesOnly(b) ==
  /\ b.startTime # <<>> /\ MatchesTime(b.startTime)
  /\ b.endTime # <<>> /\ MatchesTime(b.endTime)

validateAvailability(b) ==
  /\ IsDay(b.dayOfWeek)
  /\ b.startTime # <<>> /\ MatchesTime(b.startTime)
  /\ b.endTime # <<>> /\ MatchesTime(b.endTime)

\* faulty variant: equal times accepted
EndNotBeforeStart(b) == ToMinutes(b.endTime) >= ToMinutes(b.startTime)

EndAfterStart(b) == ToMinutes(b.endTime) > ToMinutes(b.startTime)

DayRank(d) == CHOOSE i \in 1..Len(DAYS) : DAYS[i] = d

\* jwt.verify: the claims of a token, or an error
authenticateToken(tok) ==
  IF tok = NoToken THEN [status |-> 401, error |-> "Access token required"]
  ELSE IF tok \notin UserIds THEN [status |-> 403, error |-> "Invalid or expired token"]
  ELSE [status |-> 0, error |-> ""]

isPractitioner(tok) == UserOf(tok).userType = "practitioner"

(* --------------------------- storage layer ----------------------------- *)
RowsFor(tbl, p, d) == {x \in tbl : x.practitionerId = p /\ x.dayOfWeek = d}

\* faulty variant: the table without its UNIQUE constraint
InsertAvailabilityNoUnique(tbl, seq, p, b) ==
  [err |-> "",
   table |-> tbl \cup {[id |-> seq + 1, practitionerId |-> p, dayOfWeek |-> b.dayOfWeek,
                        startTime |-> b.startTime, endTime |-> b.endTime]},
   lastID |-> seq + 1]

\* INSERT INTO practitioner_availability under CHECK(dayOfWeek IN (...)) and
\* UNIQUE(practitionerId, dayOfWeek)
InsertAvailability(tbl, seq, p, b) ==
  IF ~IsDay(b.dayOfWeek)
  THEN [err |-> "CHECK constraint failed", table |-> tbl, lastID |-> 0]
  ELSE IF RowsFor(tbl, p, b.dayOfWeek) # {}
  THEN [err |-> "UNIQUE constraint failed", table |-> tbl, lastID |-> 0]
  ELSE [err |-> "",
        table |-> tbl \cup {[id |-> seq + 1, practitionerId |-> p, dayOfWeek |-> b.dayOfWeek,
                             startTime |-> b.startTime, endTime |-> b.endTime]},
        lastID |-> seq + 1]

AlreadyExists == "Availability already exists for this day. Please update instead."

\* faulty variant: the uniqueness violation is not recognised
InsertErrorResponseRaw(err) == [status |-> 500, error |-> "An error occurred"]

\* the response to a failed INSERT: insertErr.message.includes('UNIQUE constraint')
InsertErrorResponse(err) ==
  IF err = "UNIQUE constraint failed" THEN [status |-> 400, error |-> AlreadyExists]
  ELSE [status |-> 500, error |-> "An error occurred"]

\* faulty variants of the UPDATE: nothing written; endTime left as it was
UpdateAvailabilityNoop(tbl, id, b) == tbl

UpdateAvailabilityStartOnly(tbl, id, b) ==
  {IF x.id = id THEN [x EXCEPT !.startTime = b.startTime] ELSE x : x \in tbl}

\* UPDATE practitioner_availability SET startTime, endTime WHERE id = ?
UpdateAvailability(tbl, id, b) ==
  {IF x.id = id THEN [x EXCEPT !.startTime = b.startTime, !.endTime = b.endTime] ELSE x : x \in tbl}

\* faulty variant: DELETE ... WHERE id = ? without the owner
DeleteAnyOwner(tbl, id, p) == {x \in tbl : x.id # id}

\* DELETE FROM practitioner_availability WHERE id = ? AND practitionerId = ?
DeleteAvailabilityRows(tbl, id, p) == {x \in tbl : ~(x.id = id /\ x.practitionerId = p)}

\* SELECT id ... WHERE practitionerId = ? AND dayOfWeek = ?  (0 when no row)
SelectExisting(tbl, p, d) ==
  IF RowsFor(tbl, p, d) = {} THEN 0
  ELSE (CHOOSE x \in RowsFor(tbl, p, d) : \A y \in RowsFor(tbl, p, d) : x.id <= y.id).id

RowBefore(x, y) ==
  \/ DayRank(x.dayOfWeek) < DayRank(y.dayOfWeek)
  \/ DayRank(x.dayOfWeek) = DayRank(y.dayOfWeek) /\ x.id <= y.id

RECURSIVE OrderByDay(_)
OrderByDay(S) ==
  IF S = {} THEN <<>>
  ELSE LET first == CHOOSE x \in S : \A y \in S : RowBefore(x, y)
       IN <<first>> \o OrderByDay(S \ {first})

RowBeforeP(x, y) ==
  \/ x.practitionerId < y.practitionerId
  \/ x.practitionerId = y.practitionerId /\ RowBefore(x, y)

\* ... ORDER BY practitionerId, CASE dayOfWeek ...
RECURSIVE OrderByPractitioner(_)
OrderByPractitioner(S) ==
  IF S = {} THEN <<>>
  ELSE LET first == CHOOSE x \in S : \A y \in S : RowBeforeP(x, y)
       IN <<first>> \o OrderByPractitioner(S \ {first})

\* faulty variant: the ORDER BY clause dropped, rows come back in rowid order
RECURSIVE OrderById(_)
OrderById(S) ==
  IF S = {} THEN <<>>
  ELSE LET first == CHOOSE x \in S : \A y \in S : x.id <= y.id
       IN <<first>> \o OrderById(S \ {first})

SelectAvailabilityUnordered(tbl, p) == OrderById({x \in tbl : x.practitionerId = p})

\* faulty variant: the WHERE clause dropped
SelectAvailabilityAll(tbl, p) == OrderByDay(tbl)

\* SELECT * ... WHERE practitionerId = ? ORDER BY CASE dayOfWeek ...
SelectAvailability(tbl, p) == OrderByDay({x \in tbl : x.practitionerId = p})

\* faulty variant: a plain INSERT into a table without UNIQUE(userId)
ReplaceSessionAppend(tbl, ids, u, ts, ip, ua) ==
  IF u \notin ids
  THEN [err |-> "FOREIGN KEY constraint failed", table |-> tbl]
  ELSE [err |-> "",
        table |-> tbl \cup {[userId |-> u, lastActivity |-> ts, ipAddress |-> ip, userAgent |-> ua]}]

\* faulty variant: the statement reports success and writes nothing
ReplaceSessionNoop(tbl, ids, u, ts, ip, ua) == [err |-> "", table |-> tbl]

\* faulty variant: INSERT OR IGNORE, an existing record is kept as it is
ReplaceSessionIgnore(tbl, ids, u, ts, ip, ua) ==
  IF u \notin ids
  THEN [err |-> "FOREIGN KEY constraint failed", table |-> tbl]
  ELSE [err |-> "",
        table |-> IF \E x \in tbl : x.userId = u THEN tbl
                  ELSE tbl \cup {[userId |-> u, lastActivity |-> ts, ipAddress |-> ip, userAgent |-> ua]}]

\* faulty variant: the record is stamped with a time that runs against the
\* server's clock
ReplaceSessionReversed(tbl, ids, u, ts, ip, ua) ==
  IF u \notin ids
  THEN [err |-> "FOREIGN KEY constraint failed", table |-> tbl]
  ELSE [err |-> "",
        table |-> {x \in tbl : x.userId # u}
                    \cup {[userId |-> u, lastActivity |-> MaxTime - ts, ipAddress |-> ip, userAgent |-> ua]}]

\* INSERT OR REPLACE INTO active_sessions under UNIQUE(userId) and the
\* foreign key userId -> users(id)
ReplaceSession(tbl, ids, u, ts, ip, ua) ==
  IF u \notin ids
  THEN [err |-> "FOREIGN KEY constraint failed", table |-> tbl]
  ELSE [err |-> "",
        table |-> {x \in tbl : x.userId # u}
                    \cup {[userId |-> u, lastActivity |-> ts, ipAddress |-> ip, userAgent |-> ua]}]

\* faulty variant: the statement removes nothing
DeleteSessionNoop(tbl, u) == tbl

\* faulty variant: the WHERE clause dropped, every record is removed
DeleteSessionAll(tbl, u) == {}

\* DELETE FROM active_sessions WHERE userId = ?
DeleteSession(tbl, u) == {x \in tbl : x.userId # u}

\* faulty variant: a record exactly five minutes old still counts as fresh
SelectActiveSessionsInclusive(tbl, ids, t) ==
  {x \in tbl : x.userId \in ids /\ x.lastActivity >= t - FreshnessMinutes}

\* SELECT ... FROM active_sessions WHERE userId IN (...)
\*   AND datetime(lastActivity) > datetime('now', '-5 minutes')
SelectActiveSessions(tbl, ids, t) ==
  {x \in tbl : x.userId \in ids /\ x.lastActivity > t - FreshnessMinutes}

RECURSIVE Ascending(_)
Ascending(S) ==
  IF S = {} THEN <<>>
  ELSE LET m == CHOOSE x \in S : \A y \in S : x <= y IN <<m>> \o Ascending(S \ {m})

\* SELECT id ... FROM users WHERE userType = 'practitioner'
SelectPractitioners(tbl) == Ascending({u.id : u \in {x \in tbl : x.userType = "practitioner"}})

\* the response entries of GET /all built from the three query results
Slot(x) == [id |-> x.id, dayOfWeek |-> x.dayOfWeek, startTime |-> x.startTime, endTime |-> x.endTime]

RECURSIVE SlotsOf(_, _)
SlotsOf(rows, p) ==
  IF rows = <<>> THEN <<>>
  ELSE (IF Head(rows).practitionerId = p THEN <<Slot(Head(rows))>> ELSE <<>>) \o SlotsOf(Tail(rows), p)

RosterEntry(p, rows, active) ==
  LET mine == {x \in active : x.userId = p}
  IN [id |-> p,
      availability |-> SlotsOf(rows, p),
      isActive |-> mine # {},
      lastActivity |-> IF mine = {} THEN Null
                       ELSE (CHOOSE x \in mine : \A y \in mine : x.lastActivity >= y.lastActivity).lastActivity]

Roster(ps, rows, active) == [i \in 1..Len(ps) |-> RosterEntry(ps[i], rows, active)]

\* INSERT INTO users under UNIQUE(email) and CHECK(userType IN (...)); ids
\* come from AUTOINCREMENT and no user row is ever deleted
InsertUser(tbl, email, hash, userType) ==
  LET lastID == 1 + Cardinality(tbl)
  IN IF userType \notin {"patient", "admin", "practitioner"}
     THEN [err |-> "CHECK constraint failed", table |-> tbl, lastID |-> 0]
     ELSE IF \E u \in tbl : u.email = email
     THEN [err |-> "UNIQUE constraint failed", table |-> tbl, lastID |-> 0]
     ELSE [err |-> "",
           table |-> tbl \cup {[id |-> lastID, email |-> email, password |-> hash, userType |-> userType]},
           lastID |-> lastID]

\* the payload of io.emit('practitioner:status', ...); login adds the
\* practitioner's profile, named here by the email
StatusEvent(u, active, ts, profile) ==
  [userId |-> u, isActive |-> active, lastActivity |-> ts, practitioner |-> profile]

(* ----------------------------- requests -------------------------------- *)
Idle ==
  [op |-> "none", pc |-> "idle", tok |-> NoToken, body |-> Body("", <<>>, <<>>), id |-> 0,
   existing |-> 0, status |-> 0, error |-> "", message |-> "", retId |-> 0, rows |-> <<>>,
   target |-> "", dbError |-> FALSE, details |-> "",
   email |-> "", password |-> "", ipAddress |-> <<>>, userAgent |-> "", userId |-> 0,
   practitioners |-> <<>>, roster |-> <<>>, userType |-> "", n |-> 0]

\* a fresh availability request; n is its ordinal among the accepted requests (ghost)
New(op) == [Idle EXCEPT !.op = op, !.n = nreq + 1]

Free(r) == reqs[r].pc \in {"idle", "done"} /\ nreq < MaxRequests

Respond(q, st, er) == [q EXCEPT !.pc = "done", !.status = st, !.error = er]

\* the dashboard of a browser in which nobody has logged in: no socket, no timer.
\* phase: "login" until the dashboard renders, "mounted", "loggingOut" from
\* the click on Logout to the end of its handler, "unmounted" afterwards;
\* due: when the interval timer fires next; sent, skipped (ghost): the
\* heartbeats emitted since the mount, and whether a sendHeartbeat call
\* found the socket disconnected
Unmounted ==
  [phase |-> "login", user |-> 0, connected |-> FALSE, due |-> 0, sent |-> 0, skipped |-> FALSE]

Init ==
  /\ users = {[id |-> 1, email |-> "p1@x.org", password |-> Hash("password1"), userType |-> "practitioner"],
              [id |-> 2, email |-> "p2@x.org", password |-> Hash("password2"), userType |-> "practitioner"],
              [id |-> 3, email |-> "pat@x.org", password |-> Hash("password1"), userType |-> "patient"]}
  /\ availability = {}
  /\ availabilitySeq = 0
  /\ sessions = {}
  /\ now = 0
  /\ reqs = [r \in Reqs |-> Idle]
  /\ nreq = 0
  /\ events = <<>>
  /\ dashboard = Unmounted

(* ---------------- POST /practitioner/availability ---------------------- *)
\* faulty variant: the time order is checked only after the row was written
PostAvailabilityWriteFirst(r, tok, b) ==
  /\ Free(r)
  /\ LET q == [New("upsert") EXCEPT !.tok = tok, !.body = b]
         a == authenticateToken(tok)
         res == InsertAvailability(availability, availabilitySeq, tok, b)
         late == a.status = 0 /\ isPractitioner(tok) /\ validateAvailability(b)
                   /\ ~EndAfterStart(b) /\ res.err = ""
     IN /\ reqs' = [reqs EXCEPT ![r] =
             IF a.status # 0 THEN Respond(q, a.status, a.error)
             ELSE IF ~isPractitioner(tok) THEN Respond(q, 403, "Access denied. Practitioner only.")
             ELSE IF ~validateAvailability(b) THEN Respond(q, 400, "Validation failed")
             ELSE IF ~EndAfterStart(b) THEN Respond(q, 400, "End time must be after start time")
             ELSE [q EXCEPT !.pc = "check"]]
        /\ availability' = IF late THEN res.table ELSE availability
        /\ availabilitySeq' = IF late THEN res.lastID ELSE availabilitySeq
  /\ nreq' = nreq + 1
  /\ UNCHANGED <<users, events, sessions, now, dashboard>>

PostAvailability(r, tok, b) ==
  /\ Free(r)
  /\ LET q == [New("upsert") EXCEPT !.tok = tok, !.body = b]
         a == authenticateToken(tok)
     IN reqs' = [reqs EXCEPT ![r] =
          IF a.status # 0 THEN Respond(q, a.status, a.error)
          ELSE IF ~isPractitioner(tok) THEN Respond(q, 403, "Access denied. Practitioner only.")
          ELSE IF ~validateAvailability(b) THEN Respond(q, 400, "Validation failed")
          ELSE IF ~EndAfterStart(b) THEN Respond(q, 400, "End time must be after start time")
          ELSE [q EXCEPT !.pc = "check"]]
  /\ nreq' = nreq + 1
  /\ UNCHANGED <<users, events, availability, availabilitySeq, sessions, now, dashboard>>

PostAvailabilityCheck(r, fail) ==
  /\ reqs[r].op = "upsert" /\ reqs[r].pc = "check"
  /\ LET q == reqs[r]
         existing == SelectExisting(availability, q.tok, q.body.dayOfWeek)
     IN reqs' = [reqs EXCEPT ![r] =
          IF fail THEN [Respond(q, 500, "Error checking availability") EXCEPT !.dbError = TRUE,
                                                                                !.details = StorageErrorText]
          ELSE IF existing # 0 THEN [q EXCEPT !.pc = "update", !.existing = existing]
          ELSE [q EXCEPT !.pc = "insert"]]
  /\ UNCHANGED <<users, events, availability, availabilitySeq, sessions, now, nreq, dashboard>>

PostAvailabilityUpdate(r, fail) ==
  /\ reqs[r].op = "upsert" /\ reqs[r].pc = "update"
  /\ LET q == reqs[r]
     IN IF fail
        THEN /\ reqs' = [reqs EXCEPT ![r] = [Respond(q, 500, "An error occurred") EXCEPT !.dbError = TRUE]]
             /\ UNCHANGED availability
        ELSE /\ availability' = UpdateAvailability(availability, q.existing, q.body)
             /\ reqs' = [reqs EXCEPT ![r] =
                  [Respond(q, 200, "") EXCEPT !.message = "Availability updated successfully",
                                              !.retId = q.existing]]
  /\ UNCHANGED <<users, events, availabilitySeq, sessions, now, nreq, dashboard>>

PostAvailabilityInsert(r, fail) ==
  /\ reqs[r].op = "upsert" /\ reqs[r].pc = "insert"
  /\ LET q == reqs[r]
         res == InsertAvailability(availability, availabilitySeq, q.tok, q.body)
         err == IF fail THEN StorageErrorText ELSE res.err
         resp == InsertErrorResponse(err)
     IN IF err # ""
        THEN /\ reqs' = [reqs EXCEPT ![r] = [Respond(q, resp.status, resp.error) EXCEPT !.dbError = fail]]
             /\ UNCHANGED <<availability, availabilitySeq>>
        ELSE /\ availability' = res.table
             /\ availabilitySeq' = res.lastID
             /\ reqs' = [reqs EXCEPT ![r] =
                  [Respond(q, 200, "") EXCEPT !.message = "Availability saved successfully",
                                              !.retId = res.lastID]]
  /\ UNCHANGED <<users, events, sessions, now, nreq, dashboard>>

(* ----------------- GET /practitioner/availability ---------------------- *)
GetAvailability(r, tok) ==
  /\ Free(r)
  /\ LET q == [New("list") EXCEPT !.tok = tok]
         a == authenticateToken(tok)
     IN reqs' = [reqs EXCEPT ![r] =
          IF a.status # 0 THEN Respond(q, a.status, a.error)
          ELSE IF ~isPractitioner(tok) THEN Respond(q, 403, "Access denied. Practitioner only.")
          ELSE [q EXCEPT !.pc = "query"]]
  /\ nreq' = nreq + 1
  /\ UNCHANGED <<users, events, availability, availabilitySeq, sessions, now, dashboard>>

GetAvailabilityQuery(r, fail) ==
  /\ reqs[r].op = "list" /\ reqs[r].pc = "query"
  /\ LET q == reqs[r]
     IN reqs' = [reqs EXCEPT ![r] =
          IF fail THEN [Respond(q, 500, "An error occurred") EXCEPT !.dbError = TRUE]
          ELSE [Respond(q, 200, "") EXCEPT !.rows = SelectAvailability(availability, q.tok)]]
  /\ UNCHANGED <<users, events, availability, availabilitySeq, sessions, now, nreq, dashboard>>

(* -------------- DELETE /practitioner/availability/:id ------------------ *)
DeleteAvailability(r, tok, id) ==
  /\ Free(r)
  /\ LET q == [New("delete") EXCEPT !.tok = tok, !.id = id]
         a == authenticateToken(tok)
     IN reqs' = [reqs EXCEPT ![r] =
          IF a.status # 0 THEN Respond(q, a.status, a.error)
          ELSE IF ~isPractitioner(tok) THEN Respond(q, 403, "Access denied. Practitioner only.")
          ELSE [q EXCEPT !.pc = "run"]]
  /\ nreq' = nreq + 1
  /\ UNCHANGED <<users, events, availability, availabilitySeq, sessions, now, dashboard>>

\* ghost: what the id named when the DELETE statement ran
TargetOf(tbl, id, p) ==
  IF \E x \in tbl : x.id = id /\ x.practitionerId = p THEN "own"
  ELSE IF \E x \in tbl : x.id = id THEN "foreign"
  ELSE "missing"

DeleteAvailabilityRun(r, fail) ==
  /\ reqs[r].op = "delete" /\ reqs[r].pc = "run"
  /\ LET q == reqs[r]
         after == DeleteAvailabilityRows(availability, q.id, q.tok)
         changes == Cardinality(availability) - Cardinality(after)
         t == [q EXCEPT !.target = TargetOf(availability, q.id, q.tok)]
     IN IF fail
        THEN /\ reqs' = [reqs EXCEPT ![r] = [Respond(t, 500, "An error occurred") EXCEPT !.dbError = TRUE]]
             /\ UNCHANGED availability
        ELSE /\ availability' = after
             /\ reqs' = [reqs EXCEPT ![r] =
                  IF changes = 0 THEN Respond(t, 404, "Availability not found")
                  ELSE [Respond(t, 200, "") EXCEPT !.message = "Availability deleted successfully"]]
  /\ UNCHANGED <<users, events, availabilitySeq, sessions, now, nreq, dashboard>>

(* -------------------- POST /practitioner/heartbeat --------------------- *)
PostHeartbeat(r, tok, ip, ua) ==
  /\ Free(r)
  /\ LET q == [Idle EXCEPT !.op = "heartbeat", !.tok = tok, !.ipAddress = ip, !.userAgent = ua]
         a == authenticateToken(tok)
     IN reqs' = [reqs EXCEPT ![r] =
          IF a.status # 0 THEN Respond(q, a.status, a.error)
          ELSE IF ~isPractitioner(tok) THEN Respond(q, 403, "Access denied. Practitioner only.")
          ELSE [q EXCEPT !.pc = "run", !.userId = tok]]
  /\ nreq' = nreq + 1
  /\ UNCHANGED <<users, events, availability, availabilitySeq, sessions, now, dashboard>>

PostHeartbeatRun(r, fail) ==
  /\ reqs[r].op = "heartbeat" /\ reqs[r].pc = "run"
  /\ LET q == reqs[r]
         res == ReplaceSession(sessions, UserIds, q.userId, now, q.ipAddress, q.userAgent)
     IN IF fail \/ res.err # ""
        THEN /\ reqs' = [reqs EXCEPT ![r] = [Respond(q, 500, "An error occurred") EXCEPT !.dbError = TRUE]]
             /\ UNCHANGED <<sessions, events>>
        ELSE /\ sessions' = res.table
             /\ events' = Append(events, StatusEvent(q.userId, TRUE, now, ""))
             /\ reqs' = [reqs EXCEPT ![r] = [Respond(q, 200, "") EXCEPT !.message = "Heartbeat updated"]]
  /\ UNCHANGED <<users, availability, availabilitySeq, now, nreq, dashboard>>

(* ------------- socket.on('practitioner:heartbeat') --------------------- *)
\* client is the user operating the connection (NoToken: nobody logged in);
\* the handshake carries no credential and the handler reads only the
\* userId of the event, so client is kept in tok for the record only
SocketHeartbeatEvent(r, client, userId, ip, ua) ==
  /\ Free(r)
  /\ LET q == [Idle EXCEPT !.op = "socket", !.tok = client, !.userId = userId,
                            !.ipAddress = ip, !.userAgent = ua]
     IN reqs' = [reqs EXCEPT ![r] =
          IF userId = 0 THEN [q EXCEPT !.pc = "done"] ELSE [q EXCEPT !.pc = "run"]]
  /\ nreq' = nreq + 1
  /\ UNCHANGED <<users, events, availability, availabilitySeq, sessions, now>>

\* the event sent by a client other than the modelled dashboard
SocketHeartbeatFrom(r, client, userId, ip, ua) ==
  SocketHeartbeatEvent(r, client, userId, ip, ua) /\ UNCHANGED dashboard

SocketHeartbeat(r, userId, ip, ua) == SocketHeartbeatFrom(r, NoToken, userId, ip, ua)

\* faulty variant: the record is written and no event is published
SocketHeartbeatRunSilent(r, fail) ==
  /\ reqs[r].op = "socket" /\ reqs[r].pc = "run"
  /\ LET q == reqs[r]
         res == ReplaceSession(sessions, UserIds, q.userId, now, q.ipAddress, q.userAgent)
     IN IF fail \/ res.err # ""
        THEN /\ reqs' = [reqs EXCEPT ![r] = [q EXCEPT !.pc = "done", !.dbError = TRUE]]
             /\ UNCHANGED sessions
        ELSE /\ sessions' = res.table
             /\ reqs' = [reqs EXCEPT ![r] = [q EXCEPT !.pc = "done"]]
  /\ UNCHANGED <<users, events, availability, availabilitySeq, now, nreq, dashboard>>

SocketHeartbeatRun(r, fail) ==
  /\ reqs[r].op = "socket" /\ reqs[r].pc = "run"
  /\ LET q == reqs[r]
         res == ReplaceSession(sessions, UserIds, q.userId, now, q.ipAddress, q.userAgent)
     IN IF fail \/ res.err # ""
        THEN /\ reqs' = [reqs EXCEPT ![r] = [q EXCEPT !.pc = "done", !.dbError = TRUE]]
             /\ UNCHANGED <<sessions, events>>
        ELSE /\ sessions' = res.table
             /\ events' = Append(events, StatusEvent(q.userId, TRUE, now, ""))
             /\ reqs' = [reqs EXCEPT ![r] = [q EXCEPT !.pc = "done"]]
  /\ UNCHANGED <<users, availability, availabilitySeq, now, nreq, dashboard>>

(* --------------------------- POST /auth/signup ------------------------- *)
validateSignup(email, password, userType) ==
  /\ IsEmail(email)
  /\ PasswordLength(password) >= MinPasswordLength
  /\ userType \in {"patient", "admin", "practitioner"}

PostSignup(r, email, password, userType) ==
  /\ Free(r)
  /\ LET q == [Idle EXCEPT !.op = "signup", !.email = email, !.password = password,
                            !.userType = userType]
     IN reqs' = [reqs EXCEPT ![r] =
          IF ~validateSignup(email, password, userType) THEN Respond(q, 400, "Validation failed")
          ELSE [q EXCEPT !.pc = "find"]]
  /\ nreq' = nreq + 1
  /\ UNCHANGED <<users, events, availability, availabilitySeq, sessions, now, dashboard>>

PostSignupFind(r, fail) ==
  /\ reqs[r].op = "signup" /\ reqs[r].pc = "find"
  /\ LET q == reqs[r]
     IN reqs' = [reqs EXCEPT ![r] =
          IF fail THEN [Respond(q, 500, "An error occurred") EXCEPT !.dbError = TRUE]
          ELSE IF \E u \in users : u.email = q.email
            THEN Respond(q, 400, "User with this email already exists")
          ELSE IF PasswordLength(q.password) < MinPasswordLength
            THEN Respond(q, 400, "Password must be at least 8 characters")
          ELSE [q EXCEPT !.pc = "insert"]]
  /\ UNCHANGED <<users, events, availability, availabilitySeq, sessions, now, nreq, dashboard>>

PostSignupInsert(r, fail) ==
  /\ reqs[r].op = "signup" /\ reqs[r].pc = "insert"
  /\ LET q == reqs[r]
         res == InsertUser(users, q.email, Hash(q.password), q.userType)
     IN IF fail \/ res.err # ""
        THEN /\ reqs' = [reqs EXCEPT ![r] = [Respond(q, 500, "An error occurred") EXCEPT !.dbError = fail]]
             /\ UNCHANGED users
        ELSE /\ users' = res.table
             /\ reqs' = [reqs EXCEPT ![r] =
                  [Respond(q, 201, "") EXCEPT !.message = "User created successfully",
                                              !.tok = res.lastID, !.userId = res.lastID]]
  /\ UNCHANGED <<events, availability, availabilitySeq, sessions, now, nreq, dashboard>>

(* --------------------------- POST /auth/login -------------------------- *)
PostLogin(r, email, password, ip, ua) ==
  /\ Free(r)
  /\ LET q == [Idle EXCEPT !.op = "login", !.email = email, !.password = password,
                                   !.ipAddress = ip, !.userAgent = ua]
     IN reqs' = [reqs EXCEPT ![r] =
          IF password = "" THEN Respond(q, 400, "Validation failed")
          ELSE [q EXCEPT !.pc = "find"]]
  /\ nreq' = nreq + 1
  /\ UNCHANGED <<users, events, availability, availabilitySeq, sessions, now, dashboard>>

PostLoginFind(r, fail) ==
  /\ reqs[r].op = "login" /\ reqs[r].pc = "find"
  /\ LET q == reqs[r]
         found == {u \in users : u.email = q.email}
         user == CHOOSE u \in found : TRUE
     IN reqs' = [reqs EXCEPT ![r] =
          IF fail THEN [Respond(q, 500, "An error occurred") EXCEPT !.dbError = TRUE]
          ELSE IF found = {} THEN Respond(q, 401, "Invalid email or password")
          ELSE IF ~Compare(q.password, user.password) THEN Respond(q, 401, "Invalid email or password")
          ELSE [q EXCEPT !.pc = IF user.userType = "practitioner" THEN "session" ELSE "done",
                         !.status = 200, !.message = "Login successful",
                         !.tok = user.id, !.userId = user.id]]
  /\ UNCHANGED <<users, events, availability, availabilitySeq, sessions, now, nreq, dashboard>>

\* faulty variant: a failed presence write turns the login into a 500
PostLoginSessionFailing(r, fail) ==
  /\ reqs[r].op = "login" /\ reqs[r].pc = "session"
  /\ LET q == reqs[r]
         res == ReplaceSession(sessions, UserIds, q.userId, now, q.ipAddress, q.userAgent)
     IN IF fail \/ res.err # ""
        THEN /\ reqs' = [reqs EXCEPT ![r] =
                  [Respond(q, 500, "An error occurred") EXCEPT !.dbError = TRUE, !.tok = NoToken,
                                                               !.message = ""]]
             /\ UNCHANGED <<sessions, events>>
        ELSE /\ sessions' = res.table
             /\ events' = Append(events, StatusEvent(q.userId, TRUE, now, q.email))
             /\ reqs' = [reqs EXCEPT ![r] = [q EXCEPT !.pc = "done"]]
  /\ UNCHANGED <<users, availability, availabilitySeq, now, nreq, dashboard>>

PostLoginSession(r, fail) ==
  /\ reqs[r].op = "login" /\ reqs[r].pc = "session"
  /\ LET q == reqs[r]
         res == ReplaceSession(sessions, UserIds, q.userId, now, q.ipAddress, q.userAgent)
     IN IF fail \/ res.err # ""
        THEN /\ reqs' = [reqs EXCEPT ![r] = [q EXCEPT !.pc = "done", !.dbError = TRUE]]
             /\ UNCHANGED <<sessions, events>>
        ELSE /\ sessions' = res.table
             /\ events' = Append(events, StatusEvent(q.userId, TRUE, now, q.email))
             /\ reqs' = [reqs EXCEPT ![r] = [q EXCEPT !.pc = "done"]]
  /\ UNCHANGED <<users, availability, availabilitySeq, now, nreq, dashboard>>

(* --------------------------- POST /auth/logout ------------------------- *)
PostLogoutRequest(r, tok) ==
  /\ Free(r)
  /\ LET q == [Idle EXCEPT !.op = "logout", !.tok = tok]
     IN reqs' = [reqs EXCEPT ![r] =
          IF tok = NoToken THEN Respond(q, 401, "No token provided")
          ELSE IF tok \notin UserIds THEN Respond(q, 401, "Invalid token")
          ELSE [q EXCEPT !.pc = IF UserOf(tok).userType = "practitioner" THEN "session" ELSE "done",
                         !.status = 200, !.message = "Logout successful", !.userId = tok]]
  /\ nreq' = nreq + 1
  /\ UNCHANGED <<users, events, availability, availabilitySeq, sessions, now>>

\* the request sent by a client other than the modelled dashboard
PostLogout(r, tok) == PostLogoutRequest(r, tok) /\ UNCHANGED dashboard

\* faulty variant: the status event is published also when the DELETE failed
PostLogoutSessionAlways(r, fail) ==
  /\ reqs[r].op = "logout" /\ reqs[r].pc = "session"
  /\ LET q == reqs[r]
     IN /\ sessions' = IF fail THEN sessions ELSE DeleteSession(sessions, q.userId)
        /\ events' = Append(events, StatusEvent(q.userId, FALSE, Null, ""))
        /\ reqs' = [reqs EXCEPT ![r] = [q EXCEPT !.pc = "done", !.dbError = fail]]
  /\ UNCHANGED <<users, availability, availabilitySeq, now, nreq, dashboard>>

PostLogoutSession(r, fail) ==
  /\ reqs[r].op = "logout" /\ reqs[r].pc = "session"
  /\ LET q == reqs[r]
     IN IF fail
        THEN /\ reqs' = [reqs EXCEPT ![r] = [q EXCEPT !.pc = "done", !.dbError = TRUE]]
             /\ UNCHANGED <<sessions, events>>
        ELSE /\ sessions' = DeleteSession(sessions, q.userId)
             /\ events' = Append(events, StatusEvent(q.userId, FALSE, Null, ""))
             /\ reqs' = [reqs EXCEPT ![r] = [q EXCEPT !.pc = "done"]]
  /\ UNCHANGED <<users, availability, availabilitySeq, now, nreq, dashboard>>

(* --------------------------- GET /auth/verify -------------------------- *)
GetVerify(r, tok) ==
  /\ Free(r)
  /\ LET q == [Idle EXCEPT !.op = "verify", !.tok = tok]
     IN reqs' = [reqs EXCEPT ![r] =
          IF tok = NoToken THEN Respond(q, 401, "No token provided")
          ELSE IF tok \notin UserIds THEN Respond(q, 401, "Invalid token")
          ELSE [q EXCEPT !.pc = "find"]]
  /\ nreq' = nreq + 1
  /\ UNCHANGED <<users, events, availability, availabilitySeq, sessions, now, dashboard>>

GetVerifyFind(r, fail) ==
  /\ reqs[r].op = "verify" /\ reqs[r].pc = "find"
  /\ LET q == reqs[r]
         found == {u \in users : u.id = q.tok}
     IN reqs' = [reqs EXCEPT ![r] =
          IF fail THEN [Respond(q, 500, "An error occurred") EXCEPT !.dbError = TRUE]
          ELSE IF found = {} THEN Respond(q, 401, "Invalid token")
          ELSE [Respond(q, 200, "") EXCEPT !.userId = q.tok, !.email = UserOf(q.tok).email]]
  /\ UNCHANGED <<users, events, availability, availabilitySeq, sessions, now, nreq, dashboard>>

(* ------------------------ GET /practitioner/all ------------------------ *)
GetAll(r, tok) ==
  /\ Free(r)
  /\ LET q == [Idle EXCEPT !.op = "roster", !.tok = tok]
         a == authenticateToken(tok)
     IN reqs' = [reqs EXCEPT ![r] =
          IF a.status # 0 THEN Respond(q, a.status, a.error) ELSE [q EXCEPT !.pc = "users"]]
  /\ nreq' = nreq + 1
  /\ UNCHANGED <<users, events, availability, availabilitySeq, sessions, now, dashboard>>

GetAllUsers(r, fail) ==
  /\ reqs[r].op = "roster" /\ reqs[r].pc = "users"
  /\ LET q == reqs[r]
         ps == SelectPractitioners(users)
     IN reqs' = [reqs EXCEPT ![r] =
          IF fail THEN [Respond(q, 500, "An error occurred") EXCEPT !.dbError = TRUE]
          ELSE IF Len(ps) = 0 THEN Respond(q, 200, "")
          ELSE [q EXCEPT !.pc = "availability", !.practitioners = ps]]
  /\ UNCHANGED <<users, events, availability, availabilitySeq, sessions, now, nreq, dashboard>>

GetAllAvailability(r, fail) ==
  /\ reqs[r].op = "roster" /\ reqs[r].pc = "availability"
  /\ LET q == reqs[r]
         ids == {q.practitioners[i] : i \in 1..Len(q.practitioners)}
     IN reqs' = [reqs EXCEPT ![r] =
          IF fail THEN [Respond(q, 500, "An error occurred") EXCEPT !.dbError = TRUE]
          ELSE [q EXCEPT !.pc = "sessions",
                         !.rows = OrderByPractitioner({x \in availability : x.practitionerId \in ids})]]
  /\ UNCHANGED <<users, events, availability, availabilitySeq, sessions, now, nreq, dashboard>>

\* faulty variant: a failed presence query fails the whole read
GetAllSessionsFailing(r, fail) ==
  /\ reqs[r].op = "roster" /\ reqs[r].pc = "sessions"
  /\ LET q == reqs[r]
         ids == {q.practitioners[i] : i \in 1..Len(q.practitioners)}
     IN reqs' = [reqs EXCEPT ![r] =
          IF fail THEN [Respond(q, 500, "An error occurred") EXCEPT !.dbError = TRUE]
          ELSE [Respond(q, 200, "") EXCEPT
                  !.roster = Roster(q.practitioners, q.rows, SelectActiveSessions(sessions, ids, now))]]
  /\ UNCHANGED <<users, events, availability, availabilitySeq, sessions, now, nreq, dashboard>>

GetAllSessions(r, fail) ==
  /\ reqs[r].op = "roster" /\ reqs[r].pc = "sessions"
  /\ LET q == reqs[r]
         ids == {q.practitioners[i] : i \in 1..Len(q.practitioners)}
         activeSessions == IF fail THEN {} ELSE SelectActiveSessions(sessions, ids, now)
     IN reqs' = [reqs EXCEPT ![r] =
          [Respond(q, 200, "") EXCEPT !.roster = Roster(q.practitioners, q.rows, activeSessions),
                                      !.dbError = fail]]
  /\ UNCHANGED <<users, events, availability, availabilitySeq, sessions, now, nreq, dashboard>>

(* ------------- PractitionerDashboard: socket and heartbeat ------------- *)
\* socket.on('connect') / socket.on('disconnect') of the shared socket that
\* initSocket created at login
SocketConnect ==
  /\ dashboard.phase \in {"login", "mounted", "loggingOut"} /\ dashboard.user # 0
  /\ ~dashboard.connected
  /\ dashboard' = [dashboard EXCEPT !.connected = TRUE]
  /\ UNCHANGED <<users, events, availability, availabilitySeq, sessions, now, reqs, nreq>>

SocketDisconnect ==
  /\ dashboard.connected
  /\ dashboard' = [dashboard EXCEPT !.connected = FALSE]
  /\ UNCHANGED <<users, events, availability, availabilitySeq, sessions, now, reqs, nreq>>

\* sendHeartbeat: emits practitioner:heartbeat {userId: user.id} when the
\* socket is connected, and does nothing otherwise; the event reaches the
\* server's handler in the same step
sendHeartbeat(r, ip, ua) ==
  IF dashboard.connected /\ dashboard.user # 0
  THEN SocketHeartbeatEvent(r, dashboard.user, dashboard.user, ip, ua)
  ELSE UNCHANGED <<users, events, availability, availabilitySeq, sessions, now, reqs, nreq>>

\* the useEffect of the dashboard: a heartbeat at once, then the interval timer
DashboardMount(r, ip, ua) ==
  /\ dashboard.phase = "login" /\ dashboard.user # 0
  /\ isPractitioner(dashboard.user)
  /\ sendHeartbeat(r, ip, ua)
  /\ dashboard' = [dashboard EXCEPT !.phase = "mounted", !.due = now + HeartbeatMinutes,
                                    !.sent = IF dashboard.connected THEN 1 ELSE 0,
                                    !.skipped = ~dashboard.connected]

\* the interval timer fires
DashboardTimer(r, ip, ua) ==
  /\ dashboard.phase \in {"mounted", "loggingOut"}
  /\ now = dashboard.due
  /\ sendHeartbeat(r, ip, ua)
  /\ dashboard' = [dashboard EXCEPT !.due = now + HeartbeatMinutes,
                                    !.sent = IF dashboard.connected THEN @ + 1 ELSE @,
                                    !.skipped = @ \/ ~dashboard.connected]

\* the Logout button: POST /auth/logout with the stored token is sent and awaited
DashboardLogout(r) ==
  /\ dashboard.phase = "mounted"
  /\ PostLogoutRequest(r, dashboard.user)
  /\ dashboard' = [dashboard EXCEPT !.phase = "loggingOut"]

\* the finally block of the Logout handler: disconnectSocket, removeToken,
\* onLogout; the dashboard unmounts and its cleanup clears the interval
DashboardUnmount ==
  /\ dashboard.phase = "loggingOut"
  /\ dashboard' = [dashboard EXCEPT !.phase = "unmounted", !.connected = FALSE]
  /\ UNCHANGED <<users, events, availability, availabilitySeq, sessions, now, reqs, nreq>>

(* ------------------------------ the clock ------------------------------ *)
Tick ==
  /\ now < MaxTime
  /\ now' = now + 1
  /\ UNCHANGED <<users, events, availability, availabilitySeq, sessions, reqs, nreq, dashboard>>

(* --------------------------- specification ----------------------------- *)
Quiet == \A r \in Reqs : reqs[r].pc \in {"idle", "done"}

AvailabilitySteps ==
  \/ \E r \in Reqs, fail \in BOOLEAN : PostAvailabilityCheck(r, fail)
  \/ \E r \in Reqs, fail \in BOOLEAN : PostAvailabilityUpdate(r, fail)
  \/ \E r \in Reqs, fail \in BOOLEAN : PostAvailabilityInsert(r, fail)
  \/ \E r \in Reqs, fail \in BOOLEAN : GetAvailabilityQuery(r, fail)
  \/ \E r \in Reqs, fail \in BOOLEAN : DeleteAvailabilityRun(r, fail)

AvailabilityNext ==
  \/ \E r \in Reqs, tok \in Tokens, b \in Bodies : PostAvailability(r, tok, b)
  \/ \E r \in Reqs, tok \in Tokens : GetAvailability(r, tok)
  \/ \E r \in Reqs, tok \in Tokens, id \in 1..MaxRequests : DeleteAvailability(r, tok, id)
  \/ AvailabilitySteps

\* the availability requests handled one at a time: a request is accepted only
\* when no other is in flight
SerialNext ==
  \/ \E r \in Reqs, tok \in Tokens, b \in Bodies : Quiet /\ PostAvailability(r, tok, b)
  \/ \E r \in Reqs, tok \in Tokens : Quiet /\ GetAvailability(r, tok)
  \/ \E r \in Reqs, tok \in Tokens, id \in 1..MaxRequests : Quiet /\ DeleteAvailability(r, tok, id)
  \/ AvailabilitySteps

PresenceNext ==
  \/ \E r \in Reqs, tok \in Tokens, ip \in IPs, ua \in UserAgents : PostHeartbeat(r, tok, ip, ua)
  \/ \E r \in Reqs, fail \in BOOLEAN : PostHeartbeatRun(r, fail)
  \/ \E r \in Reqs, u \in SocketUserIds, ip \in IPs, ua \in UserAgents : SocketHeartbeat(r, u, ip, ua)
  \/ \E r \in Reqs, fail \in BOOLEAN : SocketHeartbeatRun(r, fail)
  \/ \E r \in Reqs, e \in Emails, pw \in Passwords, ip \in IPs, ua \in UserAgents : PostLogin(r, e, pw, ip, ua)
  \/ \E r \in Reqs, fail \in BOOLEAN : PostLoginFind(r, fail)
  \/ \E r \in Reqs, fail \in BOOLEAN : PostLoginSession(r, fail)
  \/ \E r \in Reqs, tok \in Tokens : PostLogout(r, tok)
  \/ \E r \in Reqs, fail \in BOOLEAN : PostLogoutSession(r, fail)
  \/ \E r \in Reqs, tok \in Tokens : GetAll(r, tok)
  \/ \E r \in Reqs, fail \in BOOLEAN : GetAllUsers(r, fail)
  \/ \E r \in Reqs, fail \in BOOLEAN : GetAllAvailability(r, fail)
  \/ \E r \in Reqs, fail \in BOOLEAN : GetAllSessions(r, fail)
  \/ Tick

AvailabilitySpec == Init /\ [][AvailabilityNext]_vars

SerialSpec == Init /\ [][SerialNext]_vars

PresenceSpec == Init /\ [][PresenceNext]_vars

(* the scenario of two racing upserts: practitioner 1 posts RaceA and RaceB
   for Monday, each once, with or without a Monday slot stored before *)
RaceA == Body("Monday", T0900, T1700)
RaceB == Body("Monday", T1000, T1800)

RaceInit ==
  /\ users = {[id |-> 1, email |-> "p1@x.org", password |-> Hash("password1"), userType |-> "practitioner"],
              [id |-> 2, email |-> "p2@x.org", password |-> Hash("password2"), userType |-> "practitioner"],
              [id |-> 3, email |-> "pat@x.org", password |-> Hash("password1"), userType |-> "patient"]}
  /\ \/ availability = {} /\ availabilitySeq = 0
     \/ /\ availability = {[id |-> 1, practitionerId |-> 1, dayOfWeek |-> "Monday",
                            startTime |-> T0900, endTime |-> T0901]}
        /\ availabilitySeq = 1
     \/ /\ availability = {[id |-> 2, practitionerId |-> 1, dayOfWeek |-> "Monday",
                            startTime |-> T1000, endTime |-> T1800]}
        /\ availabilitySeq = 2
  /\ sessions = {}
  /\ now = 0
  /\ reqs = [r \in Reqs |-> Idle]
  /\ nreq = 0
  /\ events = <<>>
  /\ dashboard = Unmounted

RaceNext ==
  \/ reqs[1].pc = "idle" /\ PostAvailability(1, 1, RaceA)
  \/ reqs[2].pc = "idle" /\ PostAvailability(2, 1, RaceB)
  \/ \E r \in Reqs, fail \in BOOLEAN : PostAvailabilityCheck(r, fail)
  \/ \E r \in Reqs, fail \in BOOLEAN : PostAvailabilityUpdate(r, fail)
  \/ \E r \in Reqs, fail \in BOOLEAN : PostAvailabilityInsert(r, fail)

RaceSpec == RaceInit /\ [][RaceNext]_vars

(* the scenario of roster reads around logouts: both practitioners have
   logged in at time 0 and stored slots, then log out while clients read
   the roster and time passes *)
RosterInit ==
  /\ users = {[id |-> 1, email |-> "p1@x.org", password |-> Hash("password1"), userType |-> "practitioner"],
              [id |-> 2, email |-> "p2@x.org", password |-> Hash("password2"), userType |-> "practitioner"],
              [id |-> 3, email |-> "pat@x.org", password |-> Hash("password1"), userType |-> "patient"]}
  /\ availability = {[id |-> 1, practitionerId |-> 1, dayOfWeek |-> "Tuesday",
                      startTime |-> T0900, endTime |-> T1700],
                     [id |-> 2, practitionerId |-> 1, dayOfWeek |-> "Monday",
                      startTime |-> T1000, endTime |-> T1800],
                     [id |-> 3, practitionerId |-> 2, dayOfWeek |-> "Sunday",
                      startTime |-> T0900, endTime |-> T0901]}
  /\ availabilitySeq = 3
  /\ sessions = {[userId |-> u, lastActivity |-> 0, ipAddress |-> <<10, 0, 0, 1>>,
                  userAgent |-> "Mozilla/5.0"] : u \in {1, 2}}
  /\ now = 0
  /\ reqs = [r \in Reqs |-> Idle]
  /\ nreq = 0
  /\ events = <<>>
  /\ dashboard = Unmounted

RosterNext ==
  \/ \E r \in Reqs, tok \in Tokens : PostLogout(r, tok)
  \/ \E r \in Reqs, fail \in BOOLEAN : PostLogoutSession(r, fail)
  \/ \E r \in Reqs, tok \in Tokens : GetAll(r, tok)
  \/ \E r \in Reqs, fail \in BOOLEAN : GetAllUsers(r, fail)
  \/ \E r \in Reqs, fail \in BOOLEAN : GetAllAvailability(r, fail)
  \/ \E r \in Reqs, fail \in BOOLEAN : GetAllSessions(r, fail)
  \/ Tick

RosterSpec == RosterInit /\ [][RosterNext]_vars

(* the scenario of a login followed by roster reads: one client logs in, and
   other clients request the roster once the login has been answered 200 *)
LoginAnswered == reqs[1].op = "login" /\ reqs[1].status = 200

LoginNext ==
  \/ \E e \in Emails, pw \in Passwords, ip \in IPs, ua \in UserAgents :
       reqs[1].pc = "idle" /\ PostLogin(1, e, pw, ip, ua)
  \/ \E r \in Reqs, fail \in BOOLEAN : PostLoginFind(r, fail)
  \/ \E r \in Reqs, fail \in BOOLEAN : PostLoginSession(r, fail)
  \/ \E tok \in Tokens : LoginAnswered /\ GetAll(2, tok)
  \/ \E r \in Reqs, fail \in BOOLEAN : GetAllUsers(r, fail)
  \/ \E r \in Reqs, fail \in BOOLEAN : GetAllAvailability(r, fail)
  \/ \E r \in Reqs, fail \in BOOLEAN : GetAllSessions(r, fail)
  \/ Tick

LoginSpec == Init /\ [][LoginNext]_vars

(* upserts over every dayOfWeek input, sent one after the other *)
ValidationNext ==
  \/ \E tok \in Tokens, b \in DayBodies : PostAvailability(1, tok, b)
  \/ \E r \in Reqs, fail \in BOOLEAN : PostAvailabilityCheck(r, fail)
  \/ \E r \in Reqs, fail \in BOOLEAN : PostAvailabilityUpdate(r, fail)
  \/ \E r \in Reqs, fail \in BOOLEAN : PostAvailabilityInsert(r, fail)

ValidationSpec == Init /\ [][ValidationNext]_vars

(* lists over every stored table: up to MaxRows slots of the two
   practitioners, inserted in any order of days (ids follow insertion) *)
SlotKeys == {1, 2} \X {DAYS[i] : i \in 1..Len(DAYS)}

ListInit ==
  /\ users = {[id |-> 1, email |-> "p1@x.org", password |-> Hash("password1"), userType |-> "practitioner"],
              [id |-> 2, email |-> "p2@x.org", password |-> Hash("password2"), userType |-> "practitioner"],
              [id |-> 3, email |-> "pat@x.org", password |-> Hash("password1"), userType |-> "patient"]}
  /\ \E k \in 0..MaxRows : \E f \in [1..k -> SlotKeys] :
       /\ \A i \in 1..k, j \in 1..k : f[i] = f[j] => i = j
       /\ availability = {[id |-> i, practitionerId |-> f[i][1], dayOfWeek |-> f[i][2],
                           startTime |-> T0900, endTime |-> T1700] : i \in 1..k}
       /\ availabilitySeq = k
  /\ sessions = {}
  /\ now = 0
  /\ reqs = [r \in Reqs |-> Idle]
  /\ nreq = 0
  /\ events = <<>>
  /\ dashboard = Unmounted

ListNext ==
  \/ \E tok \in Tokens : GetAvailability(1, tok)
  \/ \E r \in Reqs, fail \in BOOLEAN : GetAvailabilityQuery(r, fail)

ListSpec == ListInit /\ [][ListNext]_vars

(* the presence writers, with the socket clients told apart *)
OwnerNext ==
  \/ \E r \in Reqs, tok \in Tokens, ip \in IPs, ua \in UserAgents : PostHeartbeat(r, tok, ip, ua)
  \/ \E r \in Reqs, fail \in BOOLEAN : PostHeartbeatRun(r, fail)
  \/ \E r \in Reqs, c \in UserIds \cup {NoToken}, u \in SocketUserIds, ip \in IPs, ua \in UserAgents :
       SocketHeartbeatFrom(r, c, u, ip, ua)
  \/ \E r \in Reqs, fail \in BOOLEAN : SocketHeartbeatRun(r, fail)
  \/ \E r \in Reqs, e \in Emails, pw \in Passwords, ip \in IPs, ua \in UserAgents : PostLogin(r, e, pw, ip, ua)
  \/ \E r \in Reqs, fail \in BOOLEAN : PostLoginFind(r, fail)
  \/ \E r \in Reqs, fail \in BOOLEAN : PostLoginSession(r, fail)
  \/ \E r \in Reqs, tok \in Tokens : PostLogout(r, tok)
  \/ \E r \in Reqs, fail \in BOOLEAN : PostLogoutSession(r, fail)

OwnerSpec == Init /\ [][OwnerNext]_vars

(* the presence writes of two devices: one request is sent from each, the
   request of slot 1 before the request of slot 2, and their statements are
   applied in any order *)
DeviceAddresses == {<<10, 0, 0, 1>>, <<10, 0, 0, 2>>}

Sent(r) == reqs[r].pc # "idle"

LastWriteRequest(r) ==
  \/ \E tok \in UserIds, ip \in DeviceAddresses, ua \in UserAgents : PostHeartbeat(r, tok, ip, ua)
  \/ \E u \in UserIds, ip \in DeviceAddresses, ua \in UserAgents : SocketHeartbeat(r, u, ip, ua)
  \/ \E e \in Emails, ip \in DeviceAddresses, ua \in UserAgents :
       PostLogin(r, e, "password1", ip, ua)

LastWriteNext ==
  \/ ~Sent(1) /\ LastWriteRequest(1)
  \/ Sent(1) /\ ~Sent(2) /\ LastWriteRequest(2)
  \/ \E r \in Reqs, fail \in BOOLEAN : PostHeartbeatRun(r, fail)
  \/ \E r \in Reqs, fail \in BOOLEAN : SocketHeartbeatRun(r, fail)
  \/ \E r \in Reqs, fail \in BOOLEAN : PostLoginFind(r, fail)
  \/ \E r \in Reqs, fail \in BOOLEAN : PostLoginSession(r, fail)
  \/ Tick

LastWriteSpec == Init /\ [][LastWriteNext]_vars

(* the presence writers acting on stored data: both practitioners have
   logged in at time 0 and stored slots, then presence requests arrive
   while time passes *)
FrameNext ==
  \/ \E r \in Reqs, tok \in Tokens, ip \in IPs, ua \in UserAgents : PostHeartbeat(r, tok, ip, ua)
  \/ \E r \in Reqs, fail \in BOOLEAN : PostHeartbeatRun(r, fail)
  \/ \E r \in Reqs, u \in SocketUserIds, ip \in IPs, ua \in UserAgents : SocketHeartbeat(r, u, ip, ua)
  \/ \E r \in Reqs, fail \in BOOLEAN : SocketHeartbeatRun(r, fail)
  \/ \E r \in Reqs, e \in Emails, ip \in IPs, ua \in UserAgents : PostLogin(r, e, "password1", ip, ua)
  \/ \E r \in Reqs, fail \in BOOLEAN : PostLoginFind(r, fail)
  \/ \E r \in Reqs, fail \in BOOLEAN : PostLoginSession(r, fail)
  \/ \E r \in Reqs, tok \in Tokens : PostLogout(r, tok)
  \/ \E r \in Reqs, fail \in BOOLEAN : PostLogoutSession(r, fail)
  \/ Tick

FrameSpec == RosterInit /\ [][FrameNext]_vars

(* the scenario of presence requests after a logout: both practitioners
   have logged in at time 0; one client sends logouts, heartbeats and logins,
   another reads the roster, and time passes *)
AfterLogoutNext ==
  \/ \E tok \in Tokens : PostLogout(1, tok)
  \/ \E r \in Reqs, fail \in BOOLEAN : PostLogoutSession(r, fail)
  \/ \E tok \in Tokens, ip \in IPs, ua \in UserAgents : PostHeartbeat(1, tok, ip, ua)
  \/ \E r \in Reqs, fail \in BOOLEAN : PostHeartbeatRun(r, fail)
  \/ \E u \in SocketUserIds, ip \in IPs, ua \in UserAgents : SocketHeartbeat(1, u, ip, ua)
  \/ \E r \in Reqs, fail \in BOOLEAN : SocketHeartbeatRun(r, fail)
  \/ \E e \in Emails, pw \in Passwords, ip \in IPs, ua \in UserAgents : PostLogin(1, e, pw, ip, ua)
  \/ \E r \in Reqs, fail \in BOOLEAN : PostLoginFind(r, fail)
  \/ \E r \in Reqs, fail \in BOOLEAN : PostLoginSession(r, fail)
  \/ \E tok \in Tokens : GetAll(2, tok)
  \/ \E r \in Reqs, fail \in BOOLEAN : GetAllUsers(r, fail)
  \/ \E r \in Reqs, fail \in BOOLEAN : GetAllAvailability(r, fail)
  \/ \E r \in Reqs, fail \in BOOLEAN : GetAllSessions(r, fail)
  \/ Tick

AfterLogoutSpec == RosterInit /\ [][AfterLogoutNext]_vars

(* the scenario of a mounted dashboard: practitioner 1 has logged in at time
   0 (the presence write of the login applied or failed), the browser has
   created its socket; the dashboard mounts, its timer sends heartbeats in
   slot 1, and other clients read the roster in slot 2. A timer fires when
   it is due, and a heartbeat statement is applied within the minute in
   which the event was received *)
DashboardInit ==
  /\ users = {[id |-> 1, email |-> "p1@x.org", password |-> Hash("password1"), userType |-> "practitioner"],
              [id |-> 2, email |-> "p2@x.org", password |-> Hash("password2"), userType |-> "practitioner"],
              [id |-> 3, email |-> "pat@x.org", password |-> Hash("password1"), userType |-> "patient"]}
  /\ availability = {}
  /\ availabilitySeq = 0
  /\ sessions \in SUBSET {[userId |-> 1, lastActivity |-> 0, ipAddress |-> <<10, 0, 0, 1>>,
                            userAgent |-> "Mozilla/5.0"]}
  /\ now = 0
  /\ reqs = [r \in Reqs |-> Idle]
  /\ nreq = 0
  /\ events = IF sessions = {} THEN <<>> ELSE <<StatusEvent(1, TRUE, 0, "p1@x.org")>>
  /\ dashboard = [Unmounted EXCEPT !.user = 1]

DashboardTick ==
  /\ dashboard.phase \in {"mounted", "loggingOut"} => now < dashboard.due
  /\ reqs[1].pc # "run"
  /\ Tick

DashboardNext ==
  \/ SocketConnect
  \/ SocketDisconnect
  \/ \E ip \in IPs, ua \in UserAgents : DashboardMount(1, ip, ua)
  \/ \E ip \in IPs, ua \in UserAgents : DashboardTimer(1, ip, ua)
  \/ \E fail \in BOOLEAN : SocketHeartbeatRun(1, fail)
  \/ DashboardLogout(2)
  \/ \E fail \in BOOLEAN : PostLogoutSession(2, fail)
  \/ DashboardUnmount
  \/ \E tok \in Tokens : GetAll(2, tok)
  \/ \E fail \in BOOLEAN : GetAllUsers(2, fail)
  \/ \E fail \in BOOLEAN : GetAllAvailability(2, fail)
  \/ \E fail \in BOOLEAN : GetAllSessions(2, fail)
  \/ DashboardTick

DashboardSpec == DashboardInit /\ [][DashboardNext]_vars

(* every token-protected endpoint, called by one client with every kind of
   token, one request after the other *)
AuthNext ==
  \/ \E tok \in Tokens : PostLogout(1, tok)
  \/ \E r \in Reqs, fail \in BOOLEAN : PostLogoutSession(r, fail)
  \/ \E tok \in Tokens : GetVerify(1, tok)
  \/ \E r \in Reqs, fail \in BOOLEAN : GetVerifyFind(r, fail)
  \/ \E tok \in Tokens, b \in {RaceA, RaceB} : PostAvailability(1, tok, b)
  \/ \E tok \in Tokens : GetAvailability(1, tok)
  \/ \E tok \in Tokens, id \in 1..MaxRequests : DeleteAvailability(1, tok, id)
  \/ AvailabilitySteps
  \/ \E tok \in Tokens, ip \in IPs, ua \in UserAgents : PostHeartbeat(1, tok, ip, ua)
  \/ \E r \in Reqs, fail \in BOOLEAN : PostHeartbeatRun(r, fail)
  \/ \E tok \in Tokens : GetAll(1, tok)
  \/ \E r \in Reqs, fail \in BOOLEAN : GetAllUsers(r, fail)
  \/ \E r \in Reqs, fail \in BOOLEAN : GetAllAvailability(r, fail)
  \/ \E r \in Reqs, fail \in BOOLEAN : GetAllSessions(r, fail)

AuthSpec == Init /\ [][AuthNext]_vars

(* signups, interleaving freely *)
SignupNext ==
  \/ \E r \in Reqs, e \in SignupEmails, pw \in SignupPasswords, ut \in SignupUserTypes :
       PostSignup(r, e, pw, ut)
  \/ \E r \in Reqs, fail \in BOOLEAN : PostSignupFind(r, fail)
  \/ \E r \in Reqs, fail \in BOOLEAN : PostSignupInsert(r, fail)

SignupSpec == Init /\ [][SignupNext]_vars

(* every endpoint and the socket handler, interleaving freely *)
VerifyNext ==
  \/ \E r \in Reqs, tok \in Tokens : GetVerify(r, tok)
  \/ \E r \in Reqs, fail \in BOOLEAN : GetVerifyFind(r, fail)

Next == AvailabilityNext \/ PresenceNext \/ SignupNext \/ VerifyNext

Spec == Init /\ [][Next]_vars

(* ------------------------------ properties ----------------------------- *)
HasTimes(x, b) == x.startTime = b.startTime /\ x.endTime = b.endTime

\* the table holds exactly one row for (p, day of b) and it carries b's times
StoredExactly(tbl, p, b) ==
  \E x \in tbl : RowsFor(tbl, p, b.dayOfWeek) = {x} /\ HasTimes(x, b)

OkUpsert(q) == q.op = "upsert" /\ q.pc = "done" /\ q.status = 200

\* o is the request handled immediately before r, both upserts answered 200
\* for the same practitioner and day with different times
Successive(o, r) ==
  /\ OkUpsert(reqs[o]) /\ OkUpsert(reqs[r])
  /\ reqs[r].n = reqs[o].n + 1
  /\ reqs[r].tok = reqs[o].tok
  /\ reqs[r].body.dayOfWeek = reqs[o].body.dayOfWeek
  /\ ~HasTimes(reqs[o].body, reqs[r].body)

\* C1: when requests are handled one after the other, once the second of two
\* successive successful upserts for the same practitioner and day has been
\* answered, exactly one row is stored for that pair and it carries the times
\* of the second call.
C1_SecondUpsertWins ==
  \A o \in Reqs, r \in Reqs :
    (Successive(o, r) /\ reqs[r].n = nreq) => StoredExactly(availability, reqs[r].tok, reqs[r].body)

C1_Witness ==
  \E o \in Reqs, r \in Reqs :
    /\ Successive(o, r) /\ reqs[r].n = nreq
    /\ reqs[r].message = "Availability updated successfully"
    /\ StoredExactly(availability, reqs[r].tok, reqs[r].body)

SlotsForDay(rows, d) == {i \in 1..Len(rows) : rows[i].dayOfWeek = d}

\* the list request l was handled immediately after the successful upsert o
\* of the same practitioner
ListAfterUpsert(o, l) ==
  /\ OkUpsert(reqs[o])
  /\ reqs[l].op = "list" /\ reqs[l].pc = "done" /\ reqs[l].status = 200
  /\ reqs[l].n = reqs[o].n + 1
  /\ reqs[l].tok = reqs[o].tok

\* C2: when requests are handled one after the other, the practitioner's own
\* list that follows a successful upsert returns exactly one slot for the
\* upserted day, with the submitted start and end time.
C2_ListAfterUpsert ==
  \A o \in Reqs, l \in Reqs :
    ListAfterUpsert(o, l) =>
      LET idx == SlotsForDay(reqs[l].rows, reqs[o].body.dayOfWeek)
      IN /\ Cardinality(idx) = 1
         /\ \A i \in idx : HasTimes(reqs[l].rows[i], reqs[o].body)

C2_Witness ==
  \E o \in Reqs, l \in Reqs :
    /\ ListAfterUpsert(o, l)
    /\ Len(reqs[l].rows) = 2
    /\ \E i \in SlotsForDay(reqs[l].rows, reqs[o].body.dayOfWeek) : HasTimes(reqs[l].rows[i], reqs[o].body)

\* both racing upserts have been answered and no statement of either failed in storage
RaceDone ==
  \A r \in {1, 2} : reqs[r].op = "upsert" /\ reqs[r].pc = "done" /\ ~reqs[r].dbError

\* the statement that writes r's times has just been applied and answered 200
WriteApplied(r) ==
  /\ reqs[r].op = "upsert" /\ reqs[r].pc \in {"update", "insert"}
  /\ reqs'[r].pc = "done" /\ reqs'[r].status = 200

\* C3 as stated: after the two racing upserts exactly one Monday row exists,
\* with the times of one of them, and both callers were answered without a
\* duplicate-row error.
C3_NoErrorSurfaces ==
  RaceDone =>
    /\ StoredExactly(availability, 1, RaceA) \/ StoredExactly(availability, 1, RaceB)
    /\ \A r \in {1, 2} : reqs[r].status = 200

\* C3 amended: after the two racing upserts exactly one Monday row exists; each
\* write that is applied leaves that row with the writer's times, so the row
\* ends with the times of the write applied last; a caller is answered 200, or
\* 400 "already exists" when it found no row and its insert lost to the other
\* caller's insert, and at most one caller loses.
C3_RaceLeavesOneRow ==
  /\ [](RaceDone =>
          /\ Cardinality(RowsFor(availability, 1, "Monday")) = 1
          /\ \A r \in {1, 2} :
               \/ reqs[r].status = 200
               \/ reqs[r].status = 400 /\ reqs[r].error = AlreadyExists /\ reqs[r].existing = 0
          /\ \E r \in {1, 2} : reqs[r].status = 200)
  /\ [][\A r \in {1, 2} : WriteApplied(r) => StoredExactly(availability', 1, reqs[r].body)]_vars

C3_Witness ==
  /\ RaceDone
  /\ reqs[1].status = 400 /\ reqs[1].error = AlreadyExists
  /\ reqs[2].status = 200
  /\ StoredExactly(availability, 1, RaceB)

\* C4: the availability table never holds two rows for the same practitioner
\* and day of the week.
C4_OneSlotPerDay ==
  \A x \in availability, y \in availability :
    (x.practitionerId = y.practitionerId /\ x.dayOfWeek = y.dayOfWeek) => x = y

C4_Witness ==
  \E r \in Reqs, o \in Reqs :
    /\ OkUpsert(reqs[r])
    /\ reqs[o].op = "delete" /\ reqs[o].pc = "done" /\ reqs[o].status = 200
    /\ Cardinality(RowsFor(availability, reqs[r].tok, reqs[r].body.dayOfWeek)) = 1

\* C5: an insert attempted by an upsert that found no row, when a row for the
\* same practitioner and day has been stored meanwhile, is answered 400 with
\* the "already exists" message and leaves the table as it was.
C5_LosingInsertIs400 ==
  [][\A r \in Reqs :
       ( /\ reqs[r].op = "upsert" /\ reqs[r].pc = "insert"
         /\ reqs'[r].pc = "done" /\ ~reqs'[r].dbError
         /\ RowsFor(availability, reqs[r].tok, reqs[r].body.dayOfWeek) # {} )
       => /\ reqs'[r].status = 400
          /\ reqs'[r].error = AlreadyExists
          /\ availability' = availability]_vars

C5_Witness ==
  \E r \in Reqs, o \in Reqs :
    /\ reqs[r].op = "upsert" /\ reqs[r].pc = "done" /\ reqs[r].existing = 0
    /\ reqs[r].status = 400 /\ reqs[r].error = AlreadyExists
    /\ OkUpsert(reqs[o]) /\ reqs[o].message = "Availability saved successfully"
    /\ reqs[o].tok = reqs[r].tok /\ reqs[o].body.dayOfWeek = reqs[r].body.dayOfWeek
    /\ StoredExactly(availability, reqs[o].tok, reqs[o].body)

WellFormed(b) == MatchesTime(b.startTime) /\ MatchesTime(b.endTime)

ByPractitioner(q) == q.tok \in UserIds /\ isPractitioner(q.tok)

\* C6: every stored slot ends strictly after it starts; an upsert whose end is
\* not after its start is answered at once, never with 200 and with 400 when
\* sent by a practitioner with a valid day, and never reaches storage; an
\* upsert ending one minute after its start is not rejected for its times.
C6_EndAfterStart ==
  /\ \A x \in availability : ToMinutes(x.endTime) > ToMinutes(x.startTime)
  /\ \A r \in Reqs :
       (reqs[r].op = "upsert" /\ WellFormed(reqs[r].body)) =>
         /\ ToMinutes(reqs[r].body.endTime) <= ToMinutes(reqs[r].body.startTime) =>
              /\ reqs[r].pc = "done" /\ reqs[r].status \in {400, 401, 403}
              /\ reqs[r].existing = 0 /\ reqs[r].retId = 0
              /\ (ByPractitioner(reqs[r]) /\ IsDay(reqs[r].body.dayOfWeek)) =>
                   reqs[r].status = 400 /\ reqs[r].error = "End time must be after start time"
         /\ ToMinutes(reqs[r].body.endTime) = ToMinutes(reqs[r].body.startTime) + 1 =>
              reqs[r].error # "End time must be after start time"

C6_Witness ==
  \E r \in Reqs, o \in Reqs :
    /\ reqs[r].op = "upsert" /\ reqs[r].pc = "done" /\ ByPractitioner(reqs[r])
    /\ ToMinutes(reqs[r].body.endTime) = ToMinutes(reqs[r].body.startTime)
    /\ reqs[r].status = 400
    /\ OkUpsert(reqs[o])
    /\ ToMinutes(reqs[o].body.endTime) = ToMinutes(reqs[o].body.startTime) + 1
    /\ StoredExactly(availability, reqs[o].tok, reqs[o].body)

\* the DELETE statement of request r has just run without a storage failure
DeleteRan(r) ==
  /\ reqs[r].op = "delete" /\ reqs[r].pc = "run"
  /\ reqs'[r].pc = "done" /\ ~reqs'[r].dbError

\* C7: a delete of a slot that belongs to another practitioner is answered 404
\* "not found"; the slot stays stored and in its owner's list.
C7_ForeignDeleteNotFound ==
  [][\A r \in Reqs : DeleteRan(r) =>
       \A x \in availability :
         (x.id = reqs[r].id /\ x.practitionerId # reqs[r].tok) =>
           /\ reqs'[r].status = 404 /\ reqs'[r].error = "Availability not found"
           /\ x \in availability'
           /\ \E i \in 1..Len(SelectAvailability(availability', x.practitionerId)) :
                SelectAvailability(availability', x.practitionerId)[i] = x]_vars

C7_Witness ==
  \E r \in Reqs :
    /\ reqs[r].op = "delete" /\ reqs[r].pc = "done" /\ reqs[r].target = "foreign"
    /\ reqs[r].status = 404
    /\ \E x \in availability : x.id = reqs[r].id /\ x.practitionerId # reqs[r].tok

NotOwn(q) == q.op = "delete" /\ q.pc = "done" /\ ~q.dbError /\ q.target \in {"foreign", "missing"}

\* C8: two deletes by the same practitioner, one of an id that names no slot
\* and one of an id that names another practitioner's slot, get the same
\* status and the same body.
C8_DeleteHidesOwnership ==
  \A r \in Reqs, o \in Reqs :
    (NotOwn(reqs[r]) /\ NotOwn(reqs[o]) /\ reqs[r].tok = reqs[o].tok) =>
      /\ reqs[r].status = reqs[o].status
      /\ reqs[r].error = reqs[o].error
      /\ reqs[r].message = reqs[o].message

C8_Witness ==
  \E r \in Reqs, o \in Reqs :
    /\ NotOwn(reqs[r]) /\ NotOwn(reqs[o]) /\ reqs[r].tok = reqs[o].tok
    /\ reqs[r].target = "foreign" /\ reqs[o].target = "missing"
    /\ reqs[r].status = 404 /\ reqs[o].status = 404

\* C9: the presence table never holds two records for the same user id.
C9_OneSessionPerUser ==
  \A x \in sessions, y \in sessions : x.userId = y.userId => x = y

C9_Witness ==
  \E r \in Reqs, o \in Reqs :
    /\ reqs[r].op = "login" /\ reqs[r].pc = "done" /\ reqs[r].status = 200 /\ ~reqs[r].dbError
    /\ reqs[o].op \in {"heartbeat", "socket"} /\ reqs[o].pc = "done" /\ ~reqs[o].dbError
    /\ reqs[o].userId = reqs[r].userId
    /\ \E x \in sessions : x.userId = reqs[r].userId /\ x.lastActivity > 0

\* the presence query of roster request r has just run without a storage failure
RosterRead(r) ==
  /\ reqs[r].op = "roster" /\ reqs[r].pc = "sessions"
  /\ reqs'[r].pc = "done" /\ ~reqs'[r].dbError

\* C10: a presence write for u stamps the current time, so that a roster read
\* at that moment finds u active; a roster read reports a practitioner with a
\* stored record as active while less than five minutes have passed since the
\* record was written, and as inactive from then on, the record staying stored.
C10_FreshnessWindow ==
  [][ /\ \A x \in sessions' \ sessions :
           x.lastActivity = now /\ SelectActiveSessions(sessions', {x.userId}, now) = {x}
      /\ \A r \in Reqs : RosterRead(r) =>
           \A i \in 1..Len(reqs'[r].roster) : \A x \in sessions :
             x.userId = reqs'[r].roster[i].id =>
               /\ now - x.lastActivity < FreshnessMinutes =>
                    reqs'[r].roster[i].isActive /\ reqs'[r].roster[i].lastActivity = x.lastActivity
               /\ now - x.lastActivity >= FreshnessMinutes =>
                    ~reqs'[r].roster[i].isActive /\ x \in sessions' ]_vars

C10_Witness ==
  \E r \in Reqs :
    /\ reqs[r].op = "roster" /\ reqs[r].pc = "done" /\ reqs[r].status = 200 /\ ~reqs[r].dbError
    /\ \E i \in 1..Len(reqs[r].roster), j \in 1..Len(reqs[r].roster) :
         /\ ~reqs[r].roster[i].isActive
         /\ reqs[r].roster[j].isActive
         /\ \E x \in sessions :
              /\ x.userId = reqs[r].roster[i].id
              /\ x.lastActivity + FreshnessMinutes <= reqs[r].roster[j].lastActivity

\* the logout of a practitioner has been answered and its DELETE has been applied
LoggedOut(q) ==
  /\ q.op = "logout" /\ q.pc = "done" /\ q.status = 200 /\ ~q.dbError
  /\ isPractitioner(q.userId)

\* C11: a roster read whose presence query runs after the logout of
\* practitioner u has deleted u's presence record reports u as inactive with
\* no last activity, however little time has passed since u's last activity.
C11_LogoutThenInactive ==
  [][\A r \in Reqs, o \in Reqs :
       (RosterRead(r) /\ LoggedOut(reqs[o])) =>
         \A i \in 1..Len(reqs'[r].roster) :
           reqs'[r].roster[i].id = reqs[o].userId =>
             ~reqs'[r].roster[i].isActive /\ reqs'[r].roster[i].lastActivity = Null]_vars

C11_Witness ==
  \E r \in Reqs, o \in Reqs :
    /\ LoggedOut(reqs[o])
    /\ reqs[r].op = "roster" /\ reqs[r].pc = "done" /\ reqs[r].status = 200 /\ ~reqs[r].dbError
    /\ \E i \in 1..Len(reqs[r].roster), j \in 1..Len(reqs[r].roster) :
         /\ reqs[r].roster[i].id = reqs[o].userId /\ ~reqs[r].roster[i].isActive
         /\ reqs[r].roster[j].isActive /\ reqs[r].roster[j].lastActivity = 0
    /\ now < FreshnessMinutes

\* the events a subscriber has observed that report user u as active
ActiveEvents(u) == {k \in 1..Len(events) : events[k].userId = u /\ events[k].isActive}

EntryActive(roster, u) == \E i \in 1..Len(roster) : roster[i].id = u /\ roster[i].isActive

PractitionerLogin(q) == q.op = "login" /\ q.status = 200 /\ isPractitioner(q.userId)

LoginApplied == PractitionerLogin(reqs[1]) /\ reqs[1].pc = "done" /\ ~reqs[1].dbError

SevenDays == {"Monday", "Tuesday", "Wednesday", "Thursday", "Friday", "Saturday", "Sunday"}

\* C13: an upsert whose dayOfWeek is not one of the seven day names is
\* answered at once, with 400 "Validation failed" when it comes from a
\* practitioner (401 or 403 otherwise), and never reaches storage; every
\* stored slot carries one of the seven names.
C13_InvalidDayRejected ==
  /\ \A x \in availability : x.dayOfWeek \in SevenDays
  /\ \A r \in Reqs :
       (reqs[r].op = "upsert" /\ reqs[r].body.dayOfWeek \notin SevenDays) =>
         /\ reqs[r].pc = "done" /\ reqs[r].status \in {400, 401, 403}
         /\ reqs[r].existing = 0 /\ reqs[r].retId = 0
         /\ ByPractitioner(reqs[r]) => reqs[r].status = 400 /\ reqs[r].error = "Validation failed"

C13_Witness ==
  \E r \in Reqs :
    /\ reqs[r].op = "upsert" /\ reqs[r].pc = "done" /\ ByPractitioner(reqs[r])
    /\ reqs[r].body.dayOfWeek = "monday"
    /\ reqs[r].status = 400 /\ reqs[r].error = "Validation failed"
    /\ reqs[r].n = 2
    /\ availability = {[id |-> 1, practitionerId |-> reqs[r].tok, dayOfWeek |-> "Monday",
                        startTime |-> T0900, endTime |-> T1700]}

CanonicalRank(d) ==
  CASE d = "Monday" -> 1 [] d = "Tuesday" -> 2 [] d = "Wednesday" -> 3 [] d = "Thursday" -> 4
    [] d = "Friday" -> 5 [] d = "Saturday" -> 6 [] d = "Sunday" -> 7

\* the SELECT of list request r has just run without a storage failure
ListRan(r) ==
  /\ reqs[r].op = "list" /\ reqs[r].pc = "query"
  /\ reqs'[r].pc = "done" /\ ~reqs'[r].dbError

\* C14: a list returns every stored slot of the requesting practitioner exactly
\* once and no other slot, in canonical day order (Monday first, Sunday last),
\* whatever the order of the ids, that is, of insertion.
C14_CanonicalOrder ==
  [][\A r \in Reqs : ListRan(r) =>
       LET rows == reqs'[r].rows
       IN /\ reqs'[r].status = 200
          /\ {rows[i] : i \in 1..Len(rows)} = {x \in availability : x.practitionerId = reqs[r].tok}
          /\ Len(rows) = Cardinality({x \in availability : x.practitionerId = reqs[r].tok})
          /\ \A i \in 1..Len(rows), j \in 1..Len(rows) :
               i < j => CanonicalRank(rows[i].dayOfWeek) < CanonicalRank(rows[j].dayOfWeek)]_vars

C14_Witness ==
  \E r \in Reqs :
    /\ reqs[r].op = "list" /\ reqs[r].pc = "done" /\ reqs[r].status = 200
    /\ Len(reqs[r].rows) = 3
    /\ reqs[r].rows[1].dayOfWeek = "Monday" /\ reqs[r].rows[1].id = 3
    /\ reqs[r].rows[2].dayOfWeek = "Wednesday" /\ reqs[r].rows[2].id = 1
    /\ reqs[r].rows[3].dayOfWeek = "Sunday" /\ reqs[r].rows[3].id = 2

\* the presence statement of request r has just failed in storage
PresenceWriteFailed(r) ==
  /\ reqs[r].op \in {"login", "heartbeat", "logout", "socket"}
  /\ reqs[r].pc \in {"session", "run"}
  /\ reqs'[r].pc = "done" /\ reqs'[r].dbError

\* C15 as stated: when the presence write or delete of a login, an HTTP
\* heartbeat or a logout fails in storage, the request is still answered 200
\* (the login with its token).
C15_PresenceFailureNeverFails ==
  [][\A r \in Reqs :
       (PresenceWriteFailed(r) /\ reqs[r].op \in {"login", "heartbeat", "logout"}) =>
         /\ reqs'[r].status = 200
         /\ reqs[r].op = "login" => reqs'[r].tok \in UserIds]_vars

\* C15 amended: a failed presence statement changes no presence record and
\* publishes no event; login is still answered 200 "Login successful" with
\* its token and logout 200 "Logout successful"; the socket heartbeat answers
\* nothing; the HTTP heartbeat, whose whole operation is that write, is
\* answered 500 with the generic "An error occurred".
C15_PresenceFailureOutcome ==
  [][\A r \in Reqs : PresenceWriteFailed(r) =>
       /\ sessions' = sessions /\ events' = events
       /\ reqs[r].op = "login" =>
            /\ reqs'[r].status = 200 /\ reqs'[r].message = "Login successful"
            /\ reqs'[r].tok = reqs[r].userId /\ reqs'[r].tok \in UserIds
       /\ reqs[r].op = "logout" =>
            reqs'[r].status = 200 /\ reqs'[r].message = "Logout successful"
       /\ reqs[r].op = "socket" => reqs'[r].status = 0
       /\ reqs[r].op = "heartbeat" =>
            reqs'[r].status = 500 /\ reqs'[r].error = "An error occurred"]_vars

C15_Witness ==
  \E r \in Reqs, o \in Reqs :
    /\ reqs[r].op = "login" /\ reqs[r].pc = "done" /\ reqs[r].dbError
    /\ reqs[r].status = 200 /\ reqs[r].tok \in UserIds
    /\ reqs[o].op = "heartbeat" /\ reqs[o].pc = "done" /\ reqs[o].dbError
    /\ reqs[o].status = 500
    /\ sessions = {} /\ events = <<>>

\* the presence query of roster request r has just failed in storage
RosterQueryFailed(r) ==
  /\ reqs[r].op = "roster" /\ reqs[r].pc = "sessions"
  /\ reqs'[r].pc = "done" /\ reqs'[r].dbError

SlotSet(slots) == {slots[i] : i \in 1..Len(slots)}

\* C16: when the presence query of a roster read fails, the read is answered
\* 200 with one entry for each practitioner, each entry carrying all the
\* stored slots of that practitioner, isActive false and lastActivity null.
C16_RosterSurvivesPresenceFailure ==
  [][\A r \in Reqs : RosterQueryFailed(r) =>
       LET roster == reqs'[r].roster
           practitioners == {u.id : u \in {x \in users : x.userType = "practitioner"}}
       IN /\ reqs'[r].status = 200
          /\ {roster[i].id : i \in 1..Len(roster)} = practitioners
          /\ Len(roster) = Cardinality(practitioners)
          /\ \A i \in 1..Len(roster) :
               /\ ~roster[i].isActive /\ roster[i].lastActivity = Null
               /\ SlotSet(roster[i].availability) =
                    {[id |-> x.id, dayOfWeek |-> x.dayOfWeek, startTime |-> x.startTime,
                      endTime |-> x.endTime] : x \in {y \in availability : y.practitionerId = roster[i].id}}
               /\ Len(roster[i].availability) =
                    Cardinality({y \in availability : y.practitionerId = roster[i].id})]_vars

C16_Witness ==
  \E r \in Reqs :
    /\ reqs[r].op = "roster" /\ reqs[r].pc = "done" /\ reqs[r].dbError /\ reqs[r].status = 200
    /\ Len(reqs[r].roster) = 2
    /\ Len(reqs[r].roster[1].availability) = 2 /\ Len(reqs[r].roster[2].availability) = 1
    /\ \A i \in 1..2 : ~reqs[r].roster[i].isActive
    /\ \A u \in {1, 2} : \E x \in sessions : x.userId = u
    /\ now < FreshnessMinutes

RecordsOf(tbl, u) == {x \in tbl : x.userId = u}

\* request r has just run its presence statement, acting for the user tok
\* names: the bearer of an HTTP request, the user a login has authenticated,
\* the user operating a socket connection
PresenceStepFor(r, u) ==
  /\ reqs[r].op \in {"login", "heartbeat", "logout", "socket"}
  /\ reqs[r].pc \in {"session", "run"} /\ reqs'[r].pc = "done"
  /\ reqs[r].tok = u

\* C17: the presence record of user u is created, refreshed or deleted only
\* by a step of a request made by u: u's login, u's HTTP heartbeat, u's
\* logout, or a socket heartbeat on u's own connection.
C17_OnlyOwnerMutatesPresence ==
  [][\A u \in SocketUserIds :
       RecordsOf(sessions', u) # RecordsOf(sessions, u) => \E r \in Reqs : PresenceStepFor(r, u)]_vars

TokenProtected == {"logout", "verify", "list", "upsert", "delete", "heartbeat", "roster"}

GenericAuthErrors ==
  {"Access token required", "Invalid or expired token", "No token provided", "Invalid token"}

\* C18: a request to a token-protected endpoint whose bearer token is missing,
\* forged or expired is answered at once with 401 and a generic message, and
\* the step that answers it changes no table and publishes no event.
C18_BadTokenIs401 ==
  [][\A r \in Reqs :
       (reqs'[r] # reqs[r] /\ reqs'[r].op \in TokenProtected /\ reqs'[r].tok \in {NoToken, BadToken}) =>
         /\ reqs'[r].pc = "done" /\ reqs'[r].status = 401
         /\ reqs'[r].error \in GenericAuthErrors
         /\ UNCHANGED <<users, availability, availabilitySeq, sessions, events>>]_vars

RawStorageTexts ==
  {StorageErrorText, "UNIQUE constraint failed", "CHECK constraint failed",
   "FOREIGN KEY constraint failed"}

\* C19: no field of any response body (error, message, details) ever carries
\* the text of a storage error.
C19_NoRawStorageText ==
  \A r \in Reqs :
    /\ reqs[r].error \notin RawStorageTexts
    /\ reqs[r].message \notin RawStorageTexts
    /\ reqs[r].details \notin RawStorageTexts

\* signup request r, valid in form, has just been answered by one of its
\* statement callbacks, with no storage failure
SignupAnswered(r) ==
  /\ reqs[r].op = "signup" /\ reqs[r].pc \in {"find", "insert"}
  /\ reqs'[r].pc = "done" /\ ~reqs'[r].dbError

\* C20: a signup whose email belongs to a stored user when it is answered is
\* answered 400 "User with this email already exists" and creates no user,
\* under every interleaving of signups; no two users ever share an email.
C20_DuplicateEmailIs400 ==
  [][ /\ \A u \in users', v \in users' : u.email = v.email => u = v
      /\ \A r \in Reqs :
           (SignupAnswered(r) /\ \E u \in users : u.email = reqs[r].email) =>
             /\ reqs'[r].status = 400
             /\ reqs'[r].error = "User with this email already exists"
             /\ users' = users ]_vars

(* ------------------------------- C21 ----------------------------------- *)
\* the practitioner:status events published so far for user u
EventsOf(ev, u) == SelectSeq(ev, LAMBDA e : e.userId = u)

\* request r runs its presence statement for user u in this step
PresenceMutation(r, u) ==
  /\ reqs[r].op \in {"login", "heartbeat", "logout", "socket"}
  /\ reqs[r].pc \in {"session", "run"} /\ reqs'[r].pc = "done"
  /\ reqs[r].userId = u

\* C21: every step publishes for user u exactly as many practitioner:status
\* events as presence mutations of u succeeded in it (one for a successful
\* login write, HTTP heartbeat, socket heartbeat or logout delete), and none
\* for a mutation that failed in storage or for any other step, a login or
\* logout of a non-practitioner included; published events are never
\* retracted.
C21_OneEventPerMutation ==
  [][/\ SubSeq(events', 1, Len(events)) = events
     /\ \A u \in SocketUserIds :
          Len(EventsOf(events', u)) =
            Len(EventsOf(events, u))
              + Cardinality({r \in Reqs : PresenceMutation(r, u) /\ ~reqs'[r].dbError})]_vars

\* a heartbeat of practitioner 1 was applied and published once, a logout
\* failed in storage, and nothing else was published
C21_Witness ==
  /\ Len(events) = 1 /\ events[1].userId = 1 /\ events[1].isActive
  /\ \E r \in Reqs : reqs[r].op = "heartbeat" /\ reqs[r].userId = 1 /\ reqs[r].status = 200
  /\ \E r \in Reqs : reqs[r].op = "logout" /\ reqs[r].pc = "done" /\ reqs[r].dbError


(* ------------------------------- C22 ----------------------------------- *)
\* the answers of authenticateToken, isPractitioner, the validation chain
\* and the time-order check
BoundaryErrors ==
  {"Access token required", "Invalid or expired token", "Access denied. Practitioner only.",
   "Validation failed", "End time must be after start time"}

\* request r, an upsert or a delete, is answered in this step with a
\* validation or authorization failure
Rejected(r) ==
  /\ reqs'[r] # reqs[r]
  /\ reqs'[r].op \in {"upsert", "delete"} /\ reqs'[r].pc = "done"
  /\ reqs'[r].status \in {400, 401, 403} /\ reqs'[r].error \in BoundaryErrors

\* C22: an availability upsert or delete that is answered with a validation
\* or authorization failure (400, 401, 403) is answered in its first step,
\* before any statement of it has run, and that step leaves the availability
\* table, its id sequence and the presence table unchanged.
C22_RejectedBeforeMutation ==
  [][\A r \in Reqs :
       Rejected(r) =>
         /\ Free(r)
         /\ availability' = availability /\ availabilitySeq' = availabilitySeq
         /\ sessions' = sessions]_vars

\* with a slot stored, an upsert was refused for its time order and a delete
\* for the caller's role
C22_Witness ==
  /\ availability # {}
  /\ \E r \in Reqs : reqs[r].op = "upsert" /\ reqs[r].status = 400
                      /\ reqs[r].error = "End time must be after start time"
  /\ \E r \in Reqs : reqs[r].op = "delete" /\ reqs[r].status = 403
                      /\ reqs[r].error = "Access denied. Practitioner only."


(* ------------------------------- C23 ----------------------------------- *)
\* C23: when an upsert is answered with success, storage holds at that
\* moment a slot with the returned id, owned by the requesting practitioner,
\* for the submitted day and with the submitted times, also when a delete of
\* that slot ran between the upsert's existence check and its update.
C23_SuccessMeansStored ==
  [][\A r \in Reqs :
       (~OkUpsert(reqs[r]) /\ OkUpsert(reqs'[r])) =>
         \E x \in availability' :
           /\ x.id = reqs'[r].retId /\ x.practitionerId = reqs'[r].tok
           /\ x.dayOfWeek = reqs'[r].body.dayOfWeek /\ HasTimes(x, reqs'[r].body)]_vars


(* ------------------------------- C24 ----------------------------------- *)
\* request r applies a presence write for user u in this step
WriteAppliedFor(r, u) ==
  /\ PresenceMutation(r, u) /\ reqs[r].op # "logout" /\ ~reqs'[r].dbError

\* the record a write of request q stores when it is applied at time t
RecordOf(q, t) ==
  [userId |-> q.userId, lastActivity |-> t, ipAddress |-> q.ipAddress, userAgent |-> q.userAgent]

\* C24: for each user u, a presence write of u that is applied (by login,
\* HTTP heartbeat or socket heartbeat) leaves as u's stored record exactly
\* the timestamp, IP and user-agent of that write, and no other step of a
\* presence write changes u's record: the stored record is that of the
\* write applied last, whatever the order in which the writes were sent.
C24_LastAppliedWriteWins ==
  [][\A u \in SocketUserIds :
       /\ \A r \in Reqs :
            WriteAppliedFor(r, u) => RecordsOf(sessions', u) = {RecordOf(reqs[r], now)}
       /\ (~\E r \in Reqs : WriteAppliedFor(r, u)) =>
            RecordsOf(sessions', u) = RecordsOf(sessions, u)]_vars

\* two writes for practitioner 1 from different devices were both applied,
\* and the stored record is that of the one sent first: it was applied last
C24_Witness ==
  /\ nreq = 2
  /\ \A r \in Reqs : reqs[r].pc = "done" /\ reqs[r].userId = 1 /\ ~reqs[r].dbError
  /\ reqs[1].op = "heartbeat" /\ reqs[1].status = 200 /\ reqs[2].op = "socket"
  /\ reqs[1].ipAddress # reqs[2].ipAddress
  /\ sessions = {RecordOf(reqs[1], now)} /\ now > 0
  /\ Len(events) = 2 /\ events[1].lastActivity < events[2].lastActivity


(* ------------------------------- C25 ----------------------------------- *)
\* C25: a step in which a presence operation for user u runs its statement
\* (the write of a login or heartbeat, the delete of a logout) leaves the
\* presence records of every other user, every availability row and every
\* user row unchanged.
C25_PresenceTouchesOnlyOwnRecord ==
  [][\A r \in Reqs, u \in SocketUserIds :
       PresenceMutation(r, u) =>
         /\ \A v \in SocketUserIds \ {u} : RecordsOf(sessions', v) = RecordsOf(sessions, v)
         /\ availability' = availability /\ availabilitySeq' = availabilitySeq
         /\ users' = users]_vars

\* practitioner 1 has logged out and practitioner 2's record of time 0 and
\* the three stored slots are still there, after a later heartbeat of 1
C25_Witness ==
  /\ Len(events) = 2 /\ events[1].userId = 1 /\ events[1].isActive /\ events[1].lastActivity > 0
  /\ events[2].userId = 1 /\ ~events[2].isActive
  /\ RecordsOf(sessions, 1) = {}
  /\ \E x \in sessions : x.userId = 2 /\ x.lastActivity = 0
  /\ Cardinality(availability) = 3


(* ------------------------------- C26 ----------------------------------- *)
\* C26: no step lowers the lastActivity of a stored presence record: the
\* record user u has after a step is stamped no earlier than the record u
\* had before it, and no record is stamped later than the server's clock,
\* also when the write sent first is applied last.
C26_LastActivityNeverDecreases ==
  [][/\ \A y \in sessions' : y.lastActivity <= now'
     /\ \A u \in SocketUserIds :
          \A x \in RecordsOf(sessions, u), y \in RecordsOf(sessions', u) :
            y.lastActivity >= x.lastActivity]_vars

\* a socket heartbeat of practitioner 2 was sent first and applied after the
\* HTTP heartbeat sent second; the record carries the later of the two times
C26_Witness ==
  /\ reqs[1].op = "socket" /\ reqs[2].op = "heartbeat" /\ reqs[2].status = 200
  /\ \A r \in Reqs : reqs[r].pc = "done" /\ reqs[r].userId = 2 /\ ~reqs[r].dbError
  /\ reqs[1].ipAddress # reqs[2].ipAddress
  /\ Len(events) = 2 /\ events[1].lastActivity < events[2].lastActivity
  /\ \E x \in sessions : /\ x.userId = 2 /\ x.ipAddress = reqs[1].ipAddress
                          /\ x.lastActivity = events[2].lastActivity


(* ------------------------------- C27 ----------------------------------- *)
\* C27: in every reachable state every stored presence record belongs to an
\* existing user whose role is practitioner.
C27_OnlyPractitionersHaveRecords ==
  \A x \in sessions : \E u \in users : u.id = x.userId /\ u.userType = "practitioner"


(* ------------------------------- C28 ----------------------------------- *)
\* the presence mutations applied for user u, in the order of application
\* (a logout publishes isActive false, a login carries the profile)
LogoutAt(u, k) == events[k].userId = u /\ ~events[k].isActive

LoginAt(u, k) == events[k].userId = u /\ events[k].isActive /\ events[k].practitioner # ""

WriteAt(u, k) == events[k].userId = u /\ events[k].isActive

\* the logout of u has deleted u's record and no login of u was applied since
LoggedOutSinceLogin(u) ==
  \E k \in 1..Len(events) :
    LogoutAt(u, k) /\ \A j \in (k + 1)..Len(events) : ~LoginAt(u, j)

\* the logout of u has deleted u's record and no presence write of u, by
\* login or by heartbeat, was applied since
LoggedOutSinceWrite(u) ==
  \E k \in 1..Len(events) :
    LogoutAt(u, k) /\ \A j \in (k + 1)..Len(events) : ~WriteAt(u, j)

\* the last presence mutation applied for u is a write, less than five
\* minutes old
FreshlyWritten(u) ==
  \E k \in 1..Len(events) :
    /\ WriteAt(u, k) /\ events[k].lastActivity > now - FreshnessMinutes
    /\ \A j \in (k + 1)..Len(events) : events[j].userId # u

\* C28 as stated: once practitioner u has logged out and the record has been
\* deleted, no roster read classifies u active until u logs in again, a
\* heartbeat arriving after the logout notwithstanding.
C28_InactiveUntilLogin ==
  [][\A r \in Reqs, u \in {1, 2} :
       (RosterRead(r) /\ LoggedOutSinceLogin(u)) => ~EntryActive(reqs'[r].roster, u)]_vars

\* C28 amended: once practitioner u has logged out and the record has been
\* deleted, no roster read classifies u active until a presence write for u
\* is applied again; a login of u or a heartbeat for u applied after the
\* logout stores a new record, and a roster read within five minutes of it
\* classifies u active.
C28_InactiveUntilNextWrite ==
  [][\A r \in Reqs, u \in {1, 2} :
       RosterRead(r) =>
         /\ LoggedOutSinceWrite(u) => ~EntryActive(reqs'[r].roster, u)
         /\ FreshlyWritten(u) => EntryActive(reqs'[r].roster, u)]_vars

\* practitioner 1 logged out, a heartbeat for 1 was applied later without a
\* login, and a roster read after it reports 1 active with the heartbeat's time
C28_Witness ==
  /\ Len(events) = 2 /\ LogoutAt(1, 1) /\ WriteAt(1, 2) /\ ~LoginAt(1, 2)
  /\ events[2].lastActivity > 0
  /\ reqs[2].op = "roster" /\ reqs[2].pc = "done" /\ reqs[2].status = 200
  /\ \E i \in 1..Len(reqs[2].roster) :
       /\ reqs[2].roster[i].id = 1 /\ reqs[2].roster[i].isActive
       /\ reqs[2].roster[i].lastActivity = events[2].lastActivity


(* ------------------------------- C29 ----------------------------------- *)
\* the dashboard is mounted and not logging out, every sendHeartbeat call
\* since the mount found the socket connected, and every heartbeat emitted
\* since the mount has been applied
MountedAndApplied ==
  /\ dashboard.phase = "mounted" /\ ~dashboard.skipped
  /\ Len(SelectSeq(EventsOf(events, dashboard.user), LAMBDA e : e.practitioner = "")) = dashboard.sent

\* the time of the presence write applied last for user u
LastWriteTime(u) == EventsOf(events, u)[Len(EventsOf(events, u))].lastActivity

====
